---- MODULE Spec2Model ----
(***************************************************************************)
(* Verification model of the vm0 runner's VM lifecycle engine.             *)
(*                                                                         *)
(*   Part 1  GC sweeper             crates/runner/src/cmd/gc.rs            *)
(*   Part 2  netns slot pool        crates/sandbox-fc/src/network (pool)   *)
(*   Part 3  Firecracker readiness  crates/sandbox-fc/src/api.rs           *)
(*   Part 4  API response parsing   crates/sandbox-fc/src/api.rs           *)
(*   Part 5  guest-init (PID 1)     crates/guest-init/src                  *)
(*   Part 6  guest agent            crates/guest-agent/src/main.rs         *)
(*                                                                         *)
(* Each part has its own specification (SpecGc, SpecNetns, SpecReady, ...) *)
(* over the shared variable tuple; a part's specification leaves the other *)
(* parts' variables at their initial values.                               *)
(***************************************************************************)
EXTENDS Integers, Sequences, FiniteSets, TLC

VARIABLES
    \* ---- Part 1: artifact directories, their flocks, and one gc_dir run
    dirExists,      \* [Hashes -> BOOLEAN]   rootfs/<hash> (or snapshots/<hash>) is on disk
    dirMtime,       \* [Hashes -> Nat]       latest mtime dir_stats would report (0: no directory)
    lockExcl,       \* [Hashes -> {"none","gc","builder"}]  exclusive flock holder
    lockShared,     \* [Hashes -> SUBSET Runners]           shared flock holders
    gcPc,           \* "idle" | "scan" | "delete" | "done"
    gcTodo,         \* directory entries read_dir has not yielded yet
    gcCands,        \* Vec<GcCandidate>, as [hash, size, mtime] records
    gcKeep,         \* keep_latest.unwrap_or(0)
    gcDry,          \* dry_run
    gcIdx,          \* number of candidates the keep/delete loops have passed
    gcFreed,        \* freed
    gcResult,       \* "none" | "ok" | "err"
    gcBusyAtProbe,  \* history: hashes whose lock another process held when probed
    dirOwn,         \* [Hashes -> Nat]   the directory's own mtime when touched (0: never)
    gcFault,        \* [Hashes -> "none" | "lock" | "remove"]  a lasting failure of the
                    \*   lock file's open or of the directory's removal
    gcOrder,        \* order in which read_dir yields the entries
    gcRun,          \* history: gc_dir calls of a sequence of runs
    gcBefore,       \* history: dirExists when the current run of the sequence began
    \* ---- Part 2: netns pool
    nsHolders,      \* [Slots -> SUBSET Procs]  holders of /var/lock/vm0-netns-{i}.lock
    nsPc,           \* [Procs -> "idle" | "scan" | "held" | "fail" | "openerr"]
    nsIdx,          \* [Procs -> 0..NumSlots]    next index the scan will try
    nsSlot,         \* [Procs -> Slots \cup {-1}] slot of the live PooledNetns guard
    nsSawHeld,      \* [Procs -> SUBSET Slots]   history: indices found locked in this scan
    nsExit,         \* [Procs -> "none" | "drop" | "panic" | "crash"] last exit path
    \* ---- Part 3: wait_for_ready
    now,            \* clock, in units of the 10 ms poll pause, saturating at MaxTime
    sockExists,     \* the API socket file exists
    sockBorn,       \* history: when the file appeared, and where the waiter was then
    srv,            \* "none" (nobody listening) | "denied" (no permission) | "up"
    inoWatch,       \* inotify watch on the parent directory is registered
    inoPending,     \* unread inotify events are queued on the fd
    dirEvents,      \* creations of other files in the directory so far
    rdPc,           \* position of wait_for_ready
    rdDeadline,     \* deadline = Instant::now() + timeout
    rdWake,         \* end of the current 10 ms sleep
    rdLast,         \* outcome of the last GET / probe
    rdStatus,       \* history: HTTP status of the last response received (0: none)
    rdSaw5xx,       \* history: some probe was answered with a 5xx status
    rdResult,       \* return value of wait_for_ready
    rdProbes,       \* GET / probes started (saturating)
    \* ---- Part 4: ApiClient::request, reading one response
    respStatus,     \* status code of the response on the wire
    respHasCl,      \* the header block has a Content-Length line
    respCl,         \* value of that line
    respPayload,    \* bytes the server sends after the header terminator
    rqWire,         \* bytes the server has not sent yet
    rqSock,         \* bytes arrived at the socket and not read yet
    rqEof,          \* the server closed the connection
    rqBuf,          \* buf
    rqTail,         \* tail, as far as read_exact has filled it
    rqNeed,         \* remaining
    rqPc,           \* "hdr" | "body" | "done"
    rqResult,       \* return value of request
    \* ---- Part 5: guest-init (PID 1), the guest agent and its descendants
    prState,        \* [Pids -> "none" | "running" | "zombie" | "reaped"]
    prParent,       \* [Pids -> pid of the current parent]
    prStatus,       \* [Pids -> wait status (wstatus) once terminated]
    prCause,        \* history: [Pids -> how the process ended]
    prReapedBy,     \* history: [Pids -> pid whose waitpid consumed the status, 0: none]
    agWait,         \* result of the agent's waitpid(cmd): "none" | "ok" | "ECHILD"
    shutdownFlag,   \* SHUTDOWN_REQUESTED
    p1Pc,           \* position of main's loop
    p1Iter,         \* iteration of the grace loop
    p1Sent,         \* history: signals PID 1 has sent to the child, in order
    p1GracePolls,   \* history: reap_zombies calls of the grace loop that returned None
    p1GraceSleeps,  \* history: 100 ms sleeps of the grace loop
    p1Eintr,        \* history: EINTR returns of the blocking waitpid
    p1Via,          \* history: "reap" | "wait" | "none": which function gave the exit code
    p1Exit,         \* code passed to std::process::exit (-1: still running)
    \* ---- Part 6: guest agent
    gaEnv,          \* what the run meets: env vars, CLI result, flag file, checkpoint
    gaPc,           \* position of run / execute / cleanup
    gaExit,         \* exit_code (in cleanup: its exit_code argument)
    gaCliExit,      \* cli_exit_code (-1: the CLI has not run)
    gaCpTried,      \* history: create_checkpoint was called
    gaTrace,        \* history: cleanup's calls, in order
    gaPayload,      \* history: "exitCode" of the complete payload (-1: none)
    gaReturn,       \* value run returned (-1: not yet)
    opsLog,         \* sandbox-ops log: names of the records written
    opsSent,        \* history: per record, the number of uploaded batches holding it
    opsPos,         \* saved offset of the sandbox-ops log, in records
    upPc,           \* [Uploaders -> "idle" | "read" | "posted"]
    upFrom,         \* [Uploaders -> offset the upload read]
    upTo,           \* [Uploaders -> end of log the upload read]
    tlState,        \* telemetry task: "none" | "alive" | "done"
    gaCancelled,    \* shutdown token is cancelled
    tlTicks,        \* periodic uploads started
    \* ---- Part 7: guest agent heartbeat_loop
    hbPc,           \* "select" | "post" | "done"
    hbIsFirst,      \* is_first
    hbCancelled,    \* shutdown token is cancelled
    hbPosts,        \* history: outcome of the first MaxHbPosts heartbeat POSTs (TRUE: Ok)
    hbResult,       \* "none" | "Ok" | "Err": return value of heartbeat_loop
    \* ---- Part 8: guest agent create_snapshot (artifact upload protocol)
    snEnv,          \* what the call meets: prepare response, local faults, PUT and commit outcomes
    snPc,           \* position of create_snapshot
    snLog,          \* history: requests made and archive created, in order
    snResult,       \* return value of create_snapshot
    \* ---- Part 9: guest agent metrics_loop
    mtPc,           \* position of metrics_loop: "off", "select", "body", "done"
    mtLines,        \* history: lines appended to the metrics file (capped)
    \* ---- Part 10: runner lock module (lock.rs)
    lkHolder,       \* the caller whose open file holds the flock, or 0 when nobody does
    lkPc,           \* [Lockers -> "idle", "flock" (inside the blocking flock), "held"]
    lkLast,         \* [Lockers -> the last call: which, its result, whether a guard was alive, the failure met]
    \* ---- Part 11: runner benchmark (benchmark.rs)
    bmEnv,          \* what the run meets: outcome of each call, is_snapshot
    bmPc,           \* position of run_benchmark
    bmLog,          \* history: calls on the factory and the sandbox, in order
    bmResult,       \* the result run_sandbox returns
    bmExit,         \* what run_benchmark returns
    \* ---- Part 12: runner service subcommands (cmd/service.rs)
    svCmd,          \* the service subcommand
    svSuffix,       \* --name: a sequence of bytes
    svEnv,          \* what drain meets
    svPc,           \* position in the subcommand
    svLog,          \* history: programs run and signals sent, in order
    svResult,       \* "none", "Ok", "Config", "Internal"
    \* ---- Part 13: the guest's archive downloader (guest_download::run)
    dlUrl,          \* storage -> whether the manifest gives an archive URL
    dlLog,          \* storage -> the responses to its requests, in order
    dlState,        \* storage -> "pending", "skipped", "extracted" or "failed"
    dlPc,           \* "run", "done" or "off"
    dlResult        \* "none", "true" or "false"

gcSeqVars == <<dirOwn, gcFault, gcOrder, gcRun, gcBefore>>
gcVars == <<dirExists, dirMtime, lockExcl, lockShared, gcPc, gcTodo, gcCands,
            gcKeep, gcDry, gcIdx, gcFreed, gcResult, gcBusyAtProbe, gcSeqVars>>
nsVars == <<nsHolders, nsPc, nsIdx, nsSlot, nsSawHeld, nsExit>>
rdVars == <<now, sockExists, sockBorn, srv, inoWatch, inoPending, dirEvents, rdPc,
            rdDeadline, rdWake, rdLast, rdStatus, rdSaw5xx, rdResult, rdProbes>>
rqVars == <<respStatus, respHasCl, respCl, respPayload, rqWire, rqSock, rqEof, rqBuf,
            rqTail, rqNeed, rqPc, rqResult>>
p1Vars == <<prState, prParent, prStatus, prCause, prReapedBy, agWait, shutdownFlag,
            p1Pc, p1Iter, p1Sent, p1GracePolls, p1GraceSleeps, p1Eintr, p1Via, p1Exit>>
gaVars == <<gaEnv, gaPc, gaExit, gaCliExit, gaCpTried, gaTrace, gaPayload, gaReturn,
            opsLog, opsSent, opsPos, upPc, upFrom, upTo, tlState, gaCancelled, tlTicks>>
hbVars == <<hbPc, hbIsFirst, hbCancelled, hbPosts, hbResult>>
snVars == <<snEnv, snPc, snLog, snResult>>
mtVars == <<mtPc, mtLines>>
lkVars == <<lkHolder, lkPc, lkLast>>
bmVars == <<bmEnv, bmPc, bmLog, bmResult, bmExit>>
svVars == <<svCmd, svSuffix, svEnv, svPc, svLog, svResult>>
dlVars == <<dlUrl, dlLog, dlState, dlPc, dlResult>>
vars == <<gcVars, nsVars, rdVars, rqVars, p1Vars, gaVars, hbVars, snVars, mtVars, lkVars, bmVars, svVars, dlVars>>

\* What the actions of one part leave alone.
notGc == <<nsVars, rdVars, rqVars, p1Vars, gaVars, hbVars, snVars, mtVars, lkVars, bmVars, svVars, dlVars>>
notNs == <<gcVars, rdVars, rqVars, p1Vars, gaVars, hbVars, snVars, mtVars, lkVars, bmVars, svVars, dlVars>>
notRd == <<gcVars, nsVars, rqVars, p1Vars, gaVars, hbVars, snVars, mtVars, lkVars, bmVars, svVars, dlVars>>
notRq == <<gcVars, nsVars, rdVars, p1Vars, gaVars, hbVars, snVars, mtVars, lkVars, bmVars, svVars, dlVars>>
notP1 == <<gcVars, nsVars, rdVars, rqVars, gaVars, hbVars, snVars, mtVars, lkVars, bmVars, svVars, dlVars>>
notGa == <<gcVars, nsVars, rdVars, rqVars, p1Vars, hbVars, snVars, mtVars, lkVars, bmVars, svVars, dlVars>>
notHb == <<gcVars, nsVars, rdVars, rqVars, p1Vars, gaVars, snVars, mtVars, lkVars, bmVars, svVars, dlVars>>
notSn == <<gcVars, nsVars, rdVars, rqVars, p1Vars, gaVars, hbVars, mtVars, lkVars, bmVars, svVars, dlVars>>
notMt == <<gcVars, nsVars, rdVars, rqVars, p1Vars, gaVars, hbVars, snVars, lkVars, bmVars, svVars, dlVars>>
notLk == <<gcVars, nsVars, rdVars, rqVars, p1Vars, gaVars, hbVars, snVars, mtVars, bmVars, svVars, dlVars>>
notBm == <<gcVars, nsVars, rdVars, rqVars, p1Vars, gaVars, hbVars, snVars, mtVars, lkVars, svVars, dlVars>>
notSv == <<gcVars, nsVars, rdVars, rqVars, p1Vars, gaVars, hbVars, snVars, mtVars, lkVars, bmVars, dlVars>>
notDl == <<gcVars, nsVars, rdVars, rqVars, p1Vars, gaVars, hbVars, snVars, mtVars, lkVars, bmVars, svVars>>

(***************************************************************************)
(* Bounds of the model.                                                    *)
(***************************************************************************)
NumHashes == 2
NumRunners == 1
MaxMtime == 2
MaxKeep == 1

Hashes == 1..NumHashes
Runners == 1..NumRunners

Min(a, b) == IF a < b THEN a ELSE b

(***************************************************************************)
(* Part 1.  GC sweeper                                                     *)
(***************************************************************************)

\* const BYTES_PER_BLOCK: a directory's size is st_blocks * 512.
BYTES_PER_BLOCK == 512

\* dir_stats(path).0: every hash directory h holds h blocks, so sizes differ.
DirSize(h) == h * BYTES_PER_BLOCK

\* dir_stats(path): (size, latest mtime) of a directory.
dir_stats(h) == [size |-> DirSize(h), mtime |-> dirMtime[h]]

\* Some process other than gc holds a flock (shared or exclusive) on h's lock file.
HeldByOther(h) == lockShared[h] # {} \/ lockExcl[h] \in {"builder"}

\* A probe that asks for the lock in shared mode: shared holders do not block it.
probe_lock_ignores_shared(h, err) ==
    IF err THEN [res |-> "Error", excl |-> lockExcl[h]]
    ELSE IF lockExcl[h] = "none" THEN [res |-> "Free", excl |-> "gc"]
    ELSE [res |-> "Held", excl |-> lockExcl[h]]

\* A probe that reports Free but lets the guard go at once.
probe_lock_drops_guard(h, err) ==
    IF err THEN [res |-> "Error", excl |-> lockExcl[h]]
    ELSE IF lockExcl[h] = "none" /\ lockShared[h] = {}
         THEN [res |-> "Free", excl |-> lockExcl[h]]
    ELSE [res |-> "Held", excl |-> lockExcl[h]]

\* probe_lock(path): open the lock file, then flock(LOCK_EX | LOCK_NB).
\* err: the open (or the flock) failed with something other than EWOULDBLOCK.
\* Returns the LockProbe variant and the exclusive holder afterwards.
probe_lock(h, err) ==
    IF err THEN [res |-> "Error", excl |-> lockExcl[h]]
    ELSE IF lockExcl[h] = "none" /\ lockShared[h] = {}
         THEN [res |-> "Free", excl |-> "gc"]
    ELSE [res |-> "Held", excl |-> lockExcl[h]]

RECURSIVE InsertByMtimeAsc(_, _)
InsertByMtimeAsc(s, c) ==
    IF s = <<>> THEN <<c>>
    ELSE IF s[1].mtime <= c.mtime THEN <<s[1]>> \o InsertByMtimeAsc(Tail(s), c)
    ELSE <<c>> \o s

\* candidates.sort_by(|a, b| b.mtime.cmp(&a.mtime)): stable, newest first.
RECURSIVE InsertByMtimeDesc(_, _)
InsertByMtimeDesc(s, c) ==
    IF s = <<>> THEN <<c>>
    ELSE IF s[1].mtime >= c.mtime THEN <<s[1]>> \o InsertByMtimeDesc(Tail(s), c)
    ELSE <<c>> \o s

RECURSIVE SortByMtimeDesc(_)
SortByMtimeDesc(s) ==
    IF s = <<>> THEN <<>>
    ELSE InsertByMtimeDesc(SortByMtimeDesc(SubSeq(s, 1, Len(s) - 1)), s[Len(s)])

CandHashes == {gcCands[i].hash : i \in 1..Len(gcCands)}

\* Dropping the candidates vector drops every Flock guard it owns.
ReleaseGcLocks == [h \in Hashes |-> IF lockExcl[h] = "gc" THEN "none" ELSE lockExcl[h]]

\* gc_dir entry: read_dir(dir) snapshots the entries; candidates starts empty.
GcBegin(keep, dry) ==
    /\ gcPc' = "scan"
    /\ gcTodo' = {h \in Hashes : dirExists[h]}
    /\ gcCands' = <<>>
    /\ gcKeep' = keep
    /\ gcDry' = dry
    /\ gcIdx' = 0
    /\ gcFreed' = 0
    /\ gcResult' = "none"
    /\ gcBusyAtProbe' = {}
    /\ UNCHANGED <<dirExists, dirMtime, lockExcl, lockShared>>

\* A gc_dir call, with other processes running.
GcStart(keep, dry) ==
    /\ gcPc \in {"idle", "done"}
    /\ GcBegin(keep, dry)
    /\ UNCHANGED gcSeqVars
    /\ UNCHANGED notGc

\* A gc_dir call of a sequence of two with the same arguments and nothing
\* else running.
GcRun(keep, dry) ==
    /\ gcPc \in {"idle", "done"}
    /\ gcRun < 2
    /\ gcPc = "done" => (keep = gcKeep /\ dry = gcDry)
    /\ GcBegin(keep, dry)
    /\ gcRun' = gcRun + 1
    /\ gcBefore' = dirExists
    /\ UNCHANGED <<dirOwn, gcFault, gcOrder>>
    /\ UNCHANGED notGc

\* touch_mtime(dir): the directory's own mtime becomes now, later than every
\* mtime so far.
GcTouch(h) ==
    /\ gcPc = "idle"
    /\ dirExists[h]
    /\ dirOwn = [x \in Hashes |-> 0]
    /\ dirOwn' = [dirOwn EXCEPT ![h] = MaxMtime + 1]
    /\ UNCHANGED <<dirExists, dirMtime, lockExcl, lockShared, gcPc, gcTodo, gcCands,
                   gcKeep, gcDry, gcIdx, gcFreed, gcResult, gcBusyAtProbe,
                   gcFault, gcOrder, gcRun, gcBefore>>
    /\ UNCHANGED notGc

\* A blocking flock(LOCK_EX): returns when nobody else holds the lock of h.
LockExclusive(h) == ~HeldByOther(h)

\* FlockArg::LockExclusiveNonblock: the flock call of probe_lock returns at
\* once, whoever holds the lock of h.
LockExclusiveNonblock(h) == TRUE

\* One iteration of the while-let loop: next_entry() yields h, its lock is probed.
GcProbe(h, err) ==
    /\ gcPc = "scan"
    /\ h \in gcTodo
    /\ LockExclusiveNonblock(h)
    /\ LET p == probe_lock(h, err)
           st == dir_stats(h)
       IN /\ lockExcl' = [lockExcl EXCEPT ![h] = p.excl]
          /\ gcCands' = IF p.res = "Free"
                        THEN Append(gcCands, [hash |-> h, size |-> st.size, mtime |-> st.mtime])
                        ELSE gcCands
    /\ gcBusyAtProbe' = IF HeldByOther(h) THEN gcBusyAtProbe \cup {h} ELSE gcBusyAtProbe
    /\ gcTodo' = gcTodo \ {h}
    /\ UNCHANGED <<dirExists, dirMtime, lockShared, gcPc, gcKeep, gcDry, gcIdx,
                   gcFreed, gcResult>>
    /\ UNCHANGED gcSeqVars
    /\ UNCHANGED notGc

\* next_entry() yields None: sort, then pass over the first keep_count candidates.
GcScanEnd ==
    /\ gcPc = "scan"
    /\ gcTodo = {}
    /\ gcCands' = SortByMtimeDesc(gcCands)
    /\ gcIdx' = Min(gcKeep, Len(gcCands))
    /\ gcFreed' = 0
    /\ gcPc' = "delete"
    /\ UNCHANGED <<dirExists, dirMtime, lockExcl, lockShared, gcTodo, gcKeep, gcDry,
                   gcResult, gcBusyAtProbe>>
    /\ UNCHANGED gcSeqVars
    /\ UNCHANGED notGc

removes_never(dry) == FALSE

removes_always(dry) == TRUE

\* `if dry_run { .. } else { remove_dir_all(..) }`
removes(dry) == ~dry

\* One iteration of `for c in candidates.iter().skip(keep_count)`.
\* ok: remove_dir_all succeeded; on failure gc_dir returns Err and drops the guards.
GcDelete(ok) ==
    /\ gcPc = "delete"
    /\ gcIdx < Len(gcCands)
    /\ LET c == gcCands[gcIdx + 1]
       IN IF ~removes(gcDry)
          THEN /\ ok
               /\ gcFreed' = gcFreed + c.size
               /\ gcIdx' = gcIdx + 1
               /\ UNCHANGED <<dirExists, dirMtime, lockExcl, gcPc, gcResult>>
          ELSE IF ok
          THEN /\ dirExists' = [dirExists EXCEPT ![c.hash] = FALSE]
               /\ dirMtime' = [dirMtime EXCEPT ![c.hash] = 0]
               /\ gcFreed' = gcFreed + c.size
               /\ gcIdx' = gcIdx + 1
               /\ UNCHANGED <<lockExcl, gcPc, gcResult>>
          ELSE /\ gcPc' = "done"
               /\ gcResult' = "err"
               /\ lockExcl' = ReleaseGcLocks
               /\ UNCHANGED <<dirExists, dirMtime, gcFreed, gcIdx>>
    /\ UNCHANGED <<lockShared, gcTodo, gcCands, gcKeep, gcDry, gcBusyAtProbe>>
    /\ UNCHANGED gcSeqVars
    /\ UNCHANGED notGc

\* Ok(freed): the candidates vector goes out of scope.
GcReturn ==
    /\ gcPc = "delete"
    /\ gcIdx >= Len(gcCands)
    /\ gcPc' = "done"
    /\ gcResult' = "ok"
    /\ lockExcl' = ReleaseGcLocks
    /\ UNCHANGED <<dirExists, dirMtime, lockShared, gcTodo, gcCands, gcKeep, gcDry,
                   gcIdx, gcFreed, gcBusyAtProbe>>
    /\ UNCHANGED gcSeqVars
    /\ UNCHANGED notGc

\* A runner that uses the existing rootfs/snapshot h takes its lock shared
\* (blocking flock: it is granted once no exclusive holder is left).
RunnerLockShared(r, h) ==
    /\ dirExists[h]
    /\ r \notin lockShared[h]
    /\ lockExcl[h] = "none"
    /\ lockShared' = [lockShared EXCEPT ![h] = @ \cup {r}]
    /\ UNCHANGED <<dirExists, dirMtime, lockExcl, gcPc, gcTodo, gcCands, gcKeep, gcDry,
                   gcIdx, gcFreed, gcResult, gcBusyAtProbe>>
    /\ UNCHANGED gcSeqVars
    /\ UNCHANGED notGc

\* The runner exits (or dies): its shared lock goes away.
RunnerUnlock(r, h) ==
    /\ r \in lockShared[h]
    /\ lockShared' = [lockShared EXCEPT ![h] = @ \ {r}]
    /\ UNCHANGED <<dirExists, dirMtime, lockExcl, gcPc, gcTodo, gcCands, gcKeep, gcDry,
                   gcIdx, gcFreed, gcResult, gcBusyAtProbe>>
    /\ UNCHANGED gcSeqVars
    /\ UNCHANGED notGc

\* A builder of the missing artifact h takes the lock exclusive (blocking flock)
\* and starts to fill the directory, which is the newest from then on.
BuilderLock(h) ==
    /\ ~dirExists[h]
    /\ lockExcl[h] = "none"
    /\ lockShared[h] = {}
    /\ lockExcl' = [lockExcl EXCEPT ![h] = "builder"]
    /\ dirExists' = [dirExists EXCEPT ![h] = TRUE]
    /\ dirMtime' = [dirMtime EXCEPT ![h] = MaxMtime]
    /\ UNCHANGED <<lockShared, gcPc, gcTodo, gcCands, gcKeep, gcDry,
                   gcIdx, gcFreed, gcResult, gcBusyAtProbe>>
    /\ UNCHANGED gcSeqVars
    /\ UNCHANGED notGc

\* The build is complete and the lock released.
BuilderUnlock(h) ==
    /\ lockExcl[h] = "builder"
    /\ lockExcl' = [lockExcl EXCEPT ![h] = "none"]
    /\ UNCHANGED <<dirExists, dirMtime, lockShared, gcPc, gcTodo, gcCands, gcKeep, gcDry,
                   gcIdx, gcFreed, gcResult, gcBusyAtProbe>>
    /\ UNCHANGED gcSeqVars
    /\ UNCHANGED notGc

\* Entry names that are content hashes; the other name stands for anything else
\* found in the directory (a temporary directory, a stray entry).
ContentHashes == 1..(NumHashes - 1)

\* The entry read_dir yields next: the first of gcOrder not yet yielded.
NextEntry(h) ==
    \E i \in 1..Len(gcOrder) :
        /\ gcOrder[i] = h
        /\ \A j \in 1..(i - 1) : gcOrder[j] \notin gcTodo

\* The loop iterations of a run of the sequence: read_dir order and lasting
\* failures are the same in both runs.
GcSeqProbe == \E h \in gcTodo : NextEntry(h) /\ GcProbe(h, gcFault[h] = "lock")

GcSeqDelete ==
    /\ gcPc = "delete"
    /\ gcIdx < Len(gcCands)
    /\ GcDelete(~removes(gcDry) \/ gcFault[gcCands[gcIdx + 1].hash] # "remove")

GcSeqQuiet ==
    /\ dirOwn = [h \in Hashes |-> 0]
    /\ gcRun = 0
    /\ gcBefore = [h \in Hashes |-> FALSE]

\* No gc_dir call has been made and nobody holds a lock.
GcQuiet ==
    /\ gcFault = [h \in Hashes |-> "none"]
    /\ gcOrder = [i \in 1..NumHashes |-> i]
    /\ GcSeqQuiet
    /\ lockExcl = [h \in Hashes |-> "none"]
    /\ lockShared = [h \in Hashes |-> {}]
    /\ gcPc = "idle"
    /\ gcTodo = {}
    /\ gcCands = <<>>
    /\ gcKeep = 0
    /\ gcDry = FALSE
    /\ gcIdx = 0
    /\ gcFreed = 0
    /\ gcResult = "none"
    /\ gcBusyAtProbe = {}

GcInit ==
    /\ dirExists \in [Hashes -> BOOLEAN]
    /\ dirMtime \in [Hashes -> 0..MaxMtime]
    /\ \A h \in Hashes : dirExists[h] <=> dirMtime[h] > 0
    /\ GcQuiet

\* The part is left out of a specification: nothing on disk, nothing running.
GcOff ==
    /\ dirExists = [h \in Hashes |-> FALSE]
    /\ dirMtime = [h \in Hashes |-> 0]
    /\ GcQuiet

\* Directories on disk, some entry possibly in use by a runner or failing,
\* before a sequence of gc runs.
GcSeqInit ==
    /\ dirExists \in [Hashes -> BOOLEAN]
    /\ dirMtime \in [Hashes -> 0..MaxMtime]
    /\ \A h \in Hashes : dirExists[h] <=> dirMtime[h] > 0
    /\ lockExcl = [h \in Hashes |-> "none"]
    /\ lockShared \in [Hashes -> {{}, {1}}]
    /\ gcFault \in [Hashes -> {"none", "lock", "remove"}]
    /\ Cardinality({h \in Hashes : lockShared[h] # {} \/ gcFault[h] # "none"}) <= 1
    /\ gcOrder \in {s \in [1..NumHashes -> Hashes] :
                       \A i, j \in 1..NumHashes : s[i] = s[j] => i = j}
    /\ gcPc = "idle" /\ gcTodo = {} /\ gcCands = <<>> /\ gcKeep = 0 /\ gcDry = FALSE
    /\ gcIdx = 0 /\ gcFreed = 0 /\ gcResult = "none" /\ gcBusyAtProbe = {}
    /\ GcSeqQuiet

GcSeqNext ==
    \/ \E h \in Hashes : GcTouch(h)
    \/ \E keep \in 0..MaxKeep, dry \in BOOLEAN : GcRun(keep, dry)
    \/ GcSeqProbe
    \/ GcScanEnd
    \/ GcSeqDelete
    \/ GcReturn

GcNext ==
    \/ \E keep \in 0..MaxKeep, dry \in BOOLEAN : GcStart(keep, dry)
    \/ \E h \in Hashes, err \in BOOLEAN : GcProbe(h, err)
    \/ GcScanEnd
    \/ \E ok \in BOOLEAN : GcDelete(ok)
    \/ GcReturn
    \/ \E r \in Runners, h \in Hashes : RunnerLockShared(r, h)
    \/ \E r \in Runners, h \in Hashes : RunnerUnlock(r, h)
    \/ \E h \in Hashes : BuilderLock(h)
    \/ \E h \in Hashes : BuilderUnlock(h)

\* The steps of the gc process itself.
GcSweep ==
    \/ \E h \in Hashes, err \in BOOLEAN : GcProbe(h, err)
    \/ GcScanEnd
    \/ \E ok \in BOOLEAN : GcDelete(ok)
    \/ GcReturn

\* Directories on disk, all of one age, with locks already held by runners
\* and builders when gc starts.
GcHeldInit ==
    /\ dirExists \in [Hashes -> BOOLEAN]
    /\ dirMtime = [h \in Hashes |-> IF dirExists[h] THEN 1 ELSE 0]
    /\ lockExcl \in [Hashes -> {"none", "builder"}]
    /\ lockShared \in [Hashes -> SUBSET Runners]
    /\ \A h \in Hashes : (lockExcl[h] = "builder") => (lockShared[h] = {})
    /\ \A h \in Hashes : HeldByOther(h) => dirExists[h]
    /\ gcFault = [h \in Hashes |-> "none"]
    /\ gcOrder = [i \in 1..NumHashes |-> i]
    /\ gcPc = "idle" /\ gcTodo = {} /\ gcCands = <<>> /\ gcKeep = 0 /\ gcDry = FALSE
    /\ gcIdx = 0 /\ gcFreed = 0 /\ gcResult = "none" /\ gcBusyAtProbe = {}
    /\ GcSeqQuiet

\* gc runs while the holders keep their locks or let them go.
GcHeldNext ==
    \/ \E keep \in 0..MaxKeep, dry \in BOOLEAN : GcStart(keep, dry)
    \/ GcSweep
    \/ \E r \in Runners, h \in Hashes : RunnerUnlock(r, h)
    \/ \E h \in Hashes : BuilderUnlock(h)

(***************************************************************************)
(* Part 2.  Netns pool (network/pool.rs, declared by network/mod.rs): the  *)
(* documented allocation protocol over /var/lock/vm0-netns-{i}.lock.       *)
(***************************************************************************)
NumSlots == 2
NumProcs == 3

Slots == 0..(NumSlots - 1)
Procs == 1..NumProcs

\* A lock attempt that takes the lock whoever holds it.
TryFlockIgnoresHolders(i) == TRUE

\* flock(LOCK_EX | LOCK_NB) on /var/lock/vm0-netns-{i}.lock succeeds iff nobody holds it.
TryFlock(i) == nsHolders[i] = {}

\* A scan that gives up at the first locked index.
AfterHeldGivesUp(i) == [pc |-> "fail", idx |-> i + 1]

\* The scan's reaction to EWOULDBLOCK on index i: go on to i + 1, and after the
\* last index return NoPoolIndexAvailable.
AfterHeld(i) ==
    IF i + 1 < NumSlots THEN [pc |-> "scan", idx |-> i + 1]
    ELSE [pc |-> "fail", idx |-> i + 1]

\* A guard whose release is skipped when the holder unwinds from a panic.
ReleasedOnExitNotPanic(p, kind) ==
    [i \in Slots |-> IF kind = "panic" THEN nsHolders[i] ELSE nsHolders[i] \ {p}]

\* Drop of PooledNetns (normal exit, error, unwinding panic) and process death
\* all end the flock: best-effort teardown failures are only logged.
ReleasedOnExit(p, kind) == [i \in Slots |-> nsHolders[i] \ {p}]

\* NetnsPool::acquire starts its scan at index 0.
NsAcquire(p) ==
    /\ nsPc[p] \in {"idle", "fail", "openerr"}
    /\ nsPc' = [nsPc EXCEPT ![p] = "scan"]
    /\ nsIdx' = [nsIdx EXCEPT ![p] = 0]
    /\ nsSawHeld' = [nsSawHeld EXCEPT ![p] = {}]
    /\ nsExit' = [nsExit EXCEPT ![p] = "none"]
    /\ UNCHANGED <<nsHolders, nsSlot>>
    /\ UNCHANGED notNs

\* One scan step: open the lock file of the next index and try the flock.
\* openFails: the lock file cannot be opened (NetworkError::LockOpen).
NsTry(p, openFails) ==
    /\ nsPc[p] = "scan"
    /\ nsIdx[p] < NumSlots
    /\ LET i == nsIdx[p]
       IN IF openFails
          THEN /\ nsPc' = [nsPc EXCEPT ![p] = "openerr"]
               /\ UNCHANGED <<nsHolders, nsIdx, nsSlot, nsSawHeld>>
          ELSE /\ nsSawHeld' = [nsSawHeld EXCEPT ![p] =
                                    IF nsHolders[i] # {} THEN @ \cup {i} ELSE @]
               /\ IF TryFlock(i)
                  THEN /\ nsHolders' = [nsHolders EXCEPT ![i] = @ \cup {p}]
                       /\ nsPc' = [nsPc EXCEPT ![p] = "held"]
                       /\ nsSlot' = [nsSlot EXCEPT ![p] = i]
                       /\ UNCHANGED nsIdx
                  ELSE /\ nsPc' = [nsPc EXCEPT ![p] = AfterHeld(i).pc]
                       /\ nsIdx' = [nsIdx EXCEPT ![p] = AfterHeld(i).idx]
                       /\ UNCHANGED <<nsHolders, nsSlot>>
    /\ UNCHANGED nsExit
    /\ UNCHANGED notNs

\* The sandbox ends: kind is how ("drop": stop/destroy or an error return,
\* "panic": unwinding, "crash": the process dies and the kernel closes its files).
NsExit(p, kind) ==
    /\ nsPc[p] = "held"
    /\ nsHolders' = ReleasedOnExit(p, kind)
    /\ nsPc' = [nsPc EXCEPT ![p] = "idle"]
    /\ nsExit' = [nsExit EXCEPT ![p] = kind]
    /\ nsIdx' = [nsIdx EXCEPT ![p] = 0]
    /\ nsSlot' = [nsSlot EXCEPT ![p] = -1]
    /\ nsSawHeld' = [nsSawHeld EXCEPT ![p] = {}]
    /\ UNCHANGED notNs

ExitKinds == {"drop", "panic", "crash"}

NsInit ==
    /\ nsHolders = [i \in Slots |-> {}]
    /\ nsPc = [p \in Procs |-> "idle"]
    /\ nsIdx = [p \in Procs |-> 0]
    /\ nsSlot = [p \in Procs |-> -1]
    /\ nsSawHeld = [p \in Procs |-> {}]
    /\ nsExit = [p \in Procs |-> "none"]

NsNext ==
    \/ \E p \in Procs : NsAcquire(p)
    \/ \E p \in Procs, openFails \in BOOLEAN : NsTry(p, openFails)
    \/ \E p \in Procs, kind \in ExitKinds : NsExit(p, kind)

(***************************************************************************)
(* Part 3.  ApiClient::wait_for_ready                                      *)
(*                                                                         *)
(* Time is counted in units of the 10 ms pause and passes only while the   *)
(* waiter is suspended on something external (its sleep, the inotify fd,   *)
(* the server's response).  tokio::time::timeout_at polls the wrapped      *)
(* future first and looks at the deadline only when that future is         *)
(* pending, so the deadline is observed at suspension points only.         *)
(***************************************************************************)
MaxTimeout == 2
MaxDirEvents == 1
MaxProbes == 3

\* The clock saturates two pauses past the longest deadline.
MaxTime == MaxTimeout + 2

\* tokio::time::sleep(Duration::from_millis(10)), in clock units.
PollPause == 1

\* HTTP statuses the server may answer GET / with.
Statuses == {200, 204, 400, 429, 500}

NoErr == [type |-> "none", kind |-> "", status |-> 0]
OkRes == [type |-> "Ok", kind |-> "", status |-> 0]
ConnectErr(kind) == [type |-> "Connect", kind |-> kind, status |-> 0]
HttpErr(status) == [type |-> "Http", kind |-> "", status |-> status]
OtherErr(msg) == [type |-> "Other", kind |-> msg, status |-> 0]
\* Err(Elapsed) of timeout_at: the request did not complete.
ElapsedErr == [type |-> "Elapsed", kind |-> "", status |-> 0]

\* A classification that retries every error.
is_retryable_always(e) == TRUE

\* A classification that treats client errors other than 429 as fatal.
is_retryable_4xx_fatal(e) ==
    CASE e.type = "Connect" -> e.kind = "ConnectionRefused"
      [] e.type = "Http" -> ~(e.status \in 400..499 /\ e.status # 429)
      [] OTHER -> TRUE

\* ApiError::is_retryable
is_retryable(e) ==
    CASE e.type = "Connect" -> e.kind = "ConnectionRefused"
      [] e.type \in {"Http", "Other"} -> TRUE

\* A status check that also accepts server errors.
StatusIsSuccessLoose(status) == status \in 200..299 \/ status >= 500

\* request(): (200..300).contains(&status)
StatusIsSuccess(status) == status \in 200..299

\* request(): Ok(body) on 2xx, ApiError::Http otherwise.
ResponseResult(status) == IF StatusIsSuccess(status) THEN OkRes ELSE HttpErr(status)

\* UnixStream::connect(socket_path): the connect(2) result, by the socket's state.
ConnectResult ==
    CASE srv = "up" -> OkRes
      [] srv = "denied" -> ConnectErr("PermissionDenied")
      [] OTHER -> ConnectErr("ConnectionRefused")

\* A timer that fires one pause late.
ElapsedLate == now > rdDeadline

\* timeout_at(deadline, ..) finds the deadline elapsed when it polls its timer.
Elapsed == now >= rdDeadline

\* The match in the phase-2 loop on a completed request.
\* Returns the next position and the value returned, if any.
AfterRequest(r) ==
    IF r.type = "Ok" THEN [pc |-> "done", result |-> OkRes]
    ELSE IF is_retryable(r) THEN [pc |-> "sleep", result |-> NoErr]
    ELSE [pc |-> "done", result |-> r]

\* A wait_for_socket_file without the existence check after add_watch.
RecheckSkipped == FALSE

\* wait_for_socket_file: the try_exists after the watch is set.
RecheckAfterWatch == sockExists

\* wait_for_ready entry: fix the deadline, then the first try_exists.
RdStart(timeout) ==
    /\ rdPc = "start"
    /\ rdDeadline' = now + timeout
    /\ rdPc' = IF sockExists THEN "connect" ELSE "watch"
    /\ UNCHANGED <<now, sockExists, sockBorn, srv, inoWatch, inoPending, dirEvents,
                   rdWake, rdLast, rdStatus, rdSaw5xx, rdResult, rdProbes>>
    /\ UNCHANGED notRd

\* wait_for_socket_file up to its first await: Inotify::init and add_watch.
RdWatch(err) ==
    /\ rdPc = "watch"
    /\ IF err
       THEN /\ rdPc' = "done"
            /\ rdResult' = OtherErr("inotify")
            /\ UNCHANGED inoWatch
       ELSE /\ rdPc' = "recheck"
            /\ inoWatch' = TRUE
            /\ UNCHANGED rdResult
    /\ UNCHANGED <<now, sockExists, sockBorn, srv, inoPending, dirEvents, rdDeadline,
                   rdWake, rdLast, rdStatus, rdSaw5xx, rdProbes>>
    /\ UNCHANGED notRd

\* The re-check after the watch is set, then AsyncFd::new.
RdRecheck(err) ==
    /\ rdPc = "recheck"
    /\ IF Elapsed
       THEN /\ rdPc' = "done"
            /\ rdResult' = OtherErr("timed out waiting for socket file")
            /\ inoWatch' = FALSE
       ELSE IF RecheckAfterWatch
       THEN /\ ~err
            /\ rdPc' = "connect"
            /\ inoWatch' = FALSE
            /\ UNCHANGED rdResult
       ELSE IF err
       THEN /\ rdPc' = "done"
            /\ rdResult' = OtherErr("AsyncFd")
            /\ inoWatch' = FALSE
       ELSE /\ rdPc' = "wait"
            /\ UNCHANGED <<rdResult, inoWatch>>
    /\ UNCHANGED <<now, sockExists, sockBorn, srv, inoPending, dirEvents, rdDeadline,
                   rdWake, rdLast, rdStatus, rdSaw5xx, rdProbes>>
    /\ UNCHANGED notRd

\* async_fd.readable() resolves: drain the fd and clear readiness.
\* err: readable() fails, which ends the wait with ApiError::Other.
RdReadable(err) ==
    /\ rdPc = "wait"
    /\ inoPending
    /\ IF err
       THEN /\ rdPc' = "done"
            /\ rdResult' = OtherErr("inotify readable")
            /\ inoWatch' = FALSE
            /\ UNCHANGED inoPending
       ELSE /\ inoPending' = FALSE
            /\ rdPc' = "check"
            /\ UNCHANGED <<rdResult, inoWatch>>
    /\ UNCHANGED <<now, sockExists, sockBorn, srv, dirEvents, rdDeadline,
                   rdWake, rdLast, rdStatus, rdSaw5xx, rdProbes>>
    /\ UNCHANGED notRd

\* The try_exists after a wake-up.
RdCheck ==
    /\ rdPc = "check"
    /\ IF Elapsed
       THEN /\ rdPc' = "done"
            /\ rdResult' = OtherErr("timed out waiting for socket file")
            /\ inoWatch' = FALSE
       ELSE IF sockExists
       THEN /\ rdPc' = "connect"
            /\ inoWatch' = FALSE
            /\ UNCHANGED rdResult
       ELSE /\ rdPc' = "wait"
            /\ UNCHANGED <<rdResult, inoWatch>>
    /\ UNCHANGED <<now, sockExists, sockBorn, srv, inoPending, dirEvents, rdDeadline,
                   rdWake, rdLast, rdStatus, rdSaw5xx, rdProbes>>
    /\ UNCHANGED notRd

\* The deadline passes while the waiter is parked on the inotify fd.
RdTimeoutWait ==
    /\ rdPc = "wait"
    /\ ~inoPending
    /\ Elapsed
    /\ rdPc' = "done"
    /\ rdResult' = OtherErr("timed out waiting for socket file")
    /\ inoWatch' = FALSE
    /\ UNCHANGED <<now, sockExists, sockBorn, srv, inoPending, dirEvents, rdDeadline,
                   rdWake, rdLast, rdStatus, rdSaw5xx, rdProbes>>
    /\ UNCHANGED notRd

\* One GET / probe up to its first suspension: connect(2) fails at once, or
\* succeeds and the request waits for the socket to become writable.
RdConnect ==
    /\ rdPc = "connect"
    /\ rdProbes' = Min(rdProbes + 1, MaxProbes)
    /\ LET c == ConnectResult
       IN IF c.type # "Ok"
          THEN /\ rdLast' = c
               /\ rdPc' = AfterRequest(c).pc
               /\ rdResult' = AfterRequest(c).result
               /\ rdWake' = IF AfterRequest(c).pc = "sleep"
                            THEN Min(now + PollPause, MaxTime) ELSE rdWake
          ELSE IF Elapsed
          THEN /\ rdLast' = ElapsedErr
               /\ rdPc' = "done"
               /\ rdResult' = OtherErr("timed out waiting for API ready")
               /\ UNCHANGED rdWake
          ELSE /\ rdLast' = NoErr
               /\ rdPc' = "await"
               /\ UNCHANGED <<rdResult, rdWake>>
    /\ UNCHANGED <<now, sockExists, sockBorn, srv, inoWatch, inoPending, dirEvents,
                   rdDeadline, rdStatus, rdSaw5xx>>
    /\ UNCHANGED notRd

\* The request completes: the server answered with a status, or the write or
\* the read failed (ioErr), which request() reports as ApiError::Other.
RdResponse(status, ioErr) ==
    /\ rdPc = "await"
    /\ LET r == IF ioErr THEN OtherErr("io") ELSE ResponseResult(status)
       IN /\ rdLast' = r
          /\ rdPc' = AfterRequest(r).pc
          /\ rdResult' = AfterRequest(r).result
          /\ rdWake' = IF AfterRequest(r).pc = "sleep"
                       THEN Min(now + PollPause, MaxTime) ELSE rdWake
    /\ rdStatus' = IF ioErr THEN rdStatus ELSE status
    /\ rdSaw5xx' = (rdSaw5xx \/ (~ioErr /\ status >= 500))
    /\ UNCHANGED <<now, sockExists, sockBorn, srv, inoWatch, inoPending, dirEvents,
                   rdDeadline, rdProbes>>
    /\ UNCHANGED notRd

\* The deadline passes while the request is pending.
RdTimeoutAwait ==
    /\ rdPc = "await"
    /\ Elapsed
    /\ rdLast' = ElapsedErr
    /\ rdPc' = "done"
    /\ rdResult' = OtherErr("timed out waiting for API ready")
    /\ UNCHANGED <<now, sockExists, sockBorn, srv, inoWatch, inoPending, dirEvents,
                   rdDeadline, rdWake, rdStatus, rdSaw5xx, rdProbes>>
    /\ UNCHANGED notRd

\* The 10 ms sleep ends and the loop starts its next iteration.
RdSleepEnd ==
    /\ rdPc = "sleep"
    /\ now >= rdWake
    /\ rdPc' = "connect"
    /\ UNCHANGED <<now, sockExists, sockBorn, srv, inoWatch, inoPending, dirEvents,
                   rdDeadline, rdWake, rdLast, rdStatus, rdSaw5xx, rdResult, rdProbes>>
    /\ UNCHANGED notRd

\* The waiter is suspended on something that only time or the outside can end.
RdBlocked ==
    \/ rdPc = "sleep" /\ now < rdWake
    \/ rdPc = "wait" /\ ~inoPending /\ ~Elapsed
    \/ rdPc = "await" /\ ~Elapsed

Tick ==
    /\ RdBlocked
    /\ now < MaxTime
    /\ now' = now + 1
    /\ UNCHANGED <<sockExists, sockBorn, srv, inoWatch, inoPending, dirEvents, rdPc,
                   rdDeadline, rdWake, rdLast, rdStatus, rdSaw5xx, rdResult, rdProbes>>
    /\ UNCHANGED notRd

\* Firecracker binds the API socket: the file appears (IN_CREATE on the parent).
CreateSocket ==
    /\ ~sockExists
    /\ rdPc # "done"
    /\ sockExists' = TRUE
    /\ sockBorn' = [at |-> now, pc |-> rdPc]
    /\ inoPending' = (inoPending \/ inoWatch)
    /\ UNCHANGED <<now, srv, inoWatch, dirEvents, rdPc, rdDeadline, rdWake, rdLast,
                   rdStatus, rdSaw5xx, rdResult, rdProbes>>
    /\ UNCHANGED notRd

\* The socket file loses its permissions (set_permissions(0o000)).
SrvChmod ==
    /\ sockExists
    /\ srv = "none"
    /\ rdPc # "done"
    /\ srv' = "denied"
    /\ UNCHANGED <<now, sockExists, sockBorn, inoWatch, inoPending, dirEvents, rdPc,
                   rdDeadline, rdWake, rdLast, rdStatus, rdSaw5xx, rdResult, rdProbes>>
    /\ UNCHANGED notRd

\* Firecracker starts listening on the bound socket.
SrvListen ==
    /\ sockExists
    /\ srv = "none"
    /\ rdPc # "done"
    /\ srv' = "up"
    /\ UNCHANGED <<now, sockExists, sockBorn, inoWatch, inoPending, dirEvents, rdPc,
                   rdDeadline, rdWake, rdLast, rdStatus, rdSaw5xx, rdResult, rdProbes>>
    /\ UNCHANGED notRd

\* Some other file is created in the socket's directory.
OtherFileCreated ==
    /\ dirEvents < MaxDirEvents
    /\ rdPc # "done"
    /\ dirEvents' = dirEvents + 1
    /\ inoPending' = (inoPending \/ inoWatch)
    /\ UNCHANGED <<now, sockExists, sockBorn, srv, inoWatch, rdPc, rdDeadline, rdWake,
                   rdLast, rdStatus, rdSaw5xx, rdResult, rdProbes>>
    /\ UNCHANGED notRd

\* wait_for_ready has been called and has not run yet.
RdQuiet ==
    /\ now = 0
    /\ inoWatch = FALSE
    /\ inoPending = FALSE
    /\ dirEvents = 0
    /\ rdPc = "start"
    /\ rdDeadline = 0
    /\ rdWake = 0
    /\ rdLast = NoErr
    /\ rdStatus = 0
    /\ rdSaw5xx = FALSE
    /\ rdResult = NoErr
    /\ rdProbes = 0

RdInit ==
    /\ sockExists \in BOOLEAN
    /\ sockBorn = IF sockExists THEN [at |-> 0, pc |-> "before"] ELSE [at |-> -1, pc |-> "never"]
    /\ srv \in (IF sockExists THEN {"none", "denied", "up"} ELSE {"none"})
    /\ RdQuiet

RdOff ==
    /\ sockExists = FALSE
    /\ sockBorn = [at |-> -1, pc |-> "never"]
    /\ srv = "none"
    /\ RdQuiet

RdStep ==
    \/ \E timeout \in 1..MaxTimeout : RdStart(timeout)
    \/ \E err \in BOOLEAN : RdWatch(err)
    \/ \E err \in BOOLEAN : RdRecheck(err)
    \/ \E err \in BOOLEAN : RdReadable(err)
    \/ RdCheck
    \/ RdTimeoutWait
    \/ RdConnect
    \/ \E status \in Statuses, ioErr \in BOOLEAN : RdResponse(status, ioErr)
    \/ RdTimeoutAwait
    \/ RdSleepEnd

RdNext ==
    \/ RdStep
    \/ Tick
    \/ CreateSocket
    \/ SrvChmod
    \/ SrvListen
    \/ OtherFileCreated

(***************************************************************************)
(* Part 4.  ApiClient::request: reading and parsing one response           *)
(*                                                                         *)
(* A response on the wire is the status line, an optional Content-Length   *)
(* line, the terminator \r\n\r\n and the payload.  Each header line is one *)
(* symbol ("S", "C"), every other symbol is one byte; "xFF" is a byte that *)
(* is not valid UTF-8.  The server sends the bytes in pieces of any size.  *)
(***************************************************************************)
MaxBody == 2

BodyBytes == {"a", "LF", "xFF"}
Terminator == <<"CR", "LF", "CR", "LF">>

RECURSIVE SeqsUpTo(_, _)
SeqsUpTo(S, n) ==
    IF n = 0 THEN {<<>>}
    ELSE LET shorter == SeqsUpTo(S, n - 1)
         IN shorter \cup {Append(q, x) : q \in {t \in shorter : Len(t) = n - 1}, x \in S}

\* The response as the server writes it.
WireOf(hasCl, payload) ==
    <<"S">> \o (IF hasCl THEN <<"C">> ELSE <<>>) \o Terminator \o payload

\* buf.windows(4).any(|w| w == b"\r\n\r\n")
HasTerminator(b) ==
    \E i \in 1..(Len(b) - 3) : SubSeq(b, i, i + 3) = Terminator

\* response.find("\r\n\r\n").unwrap_or(response.len()), as a 0-based offset.
header_end(b) ==
    IF HasTerminator(b)
    THEN (CHOOSE i \in 1..(Len(b) - 3) :
             /\ SubSeq(b, i, i + 3) = Terminator
             /\ \A j \in 1..(i - 1) : SubSeq(b, j, j + 3) # Terminator) - 1
    ELSE Len(b)

\* response.get(9..12).and_then(parse).unwrap_or(0): the status line's code.
status_of(b) == IF Len(b) >= 1 /\ b[1] = "S" THEN respStatus ELSE 0

\* The first Content-Length line among the header lines, or 0.
content_length(b) ==
    IF \E i \in 1..header_end(b) : b[i] = "C" THEN respCl ELSE 0

\* A body offset that forgets the four bytes of the terminator.
body_start_at_terminator(b) == header_end(b)

\* let body_start = header_end + 4
body_start(b) == header_end(b) + 4

\* buf.len().saturating_sub(body_start)
already_read(b) == IF Len(b) >= body_start(b) THEN Len(b) - body_start(b) ELSE 0

\* String::from_utf8_lossy: invalid bytes become U+FFFD.
RECURSIVE from_utf8_lossy(_)
from_utf8_lossy(b) ==
    IF b = <<>> THEN <<>>
    ELSE <<IF b[1] = "xFF" THEN "U+FFFD" ELSE b[1]>> \o from_utf8_lossy(Tail(b))

\* buf.get(body_start..end).unwrap_or_default(), decoded; empty without Content-Length.
body_str(b) ==
    LET cl == content_length(b)
        end == body_start(b) + cl
    IN IF cl > 0
       THEN from_utf8_lossy(IF end <= Len(b) THEN SubSeq(b, body_start(b) + 1, end) ELSE <<>>)
       ELSE <<>>

RqOk(body) == [type |-> "Ok", status |-> 0, body |-> body]
RqHttp(status, body) == [type |-> "Http", status |-> status, body |-> body]
RqOther(msg) == [type |-> "Other", status |-> 0, body |-> <<msg>>]
RqNone == [type |-> "none", status |-> 0, body |-> <<>>]

\* The status check at the end of request.
RqFinish(b) ==
    IF StatusIsSuccess(status_of(b)) THEN RqOk(body_str(b))
    ELSE RqHttp(status_of(b), body_str(b))

\* After the header loop: either the body is complete, or the rest is read.
RqAfterHeaders(b) ==
    IF content_length(b) > 0 /\ already_read(b) < content_length(b)
    THEN /\ rqPc' = "body"
         /\ rqNeed' = content_length(b) - already_read(b)
         /\ rqResult' = rqResult
    ELSE /\ rqPc' = "done"
         /\ rqNeed' = rqNeed
         /\ rqResult' = RqFinish(b)

\* reader.read_buf(&mut buf) returns m > 0 bytes; the loop ends at the terminator.
RqReadHeader(m) ==
    /\ rqPc = "hdr"
    /\ m \in 1..Len(rqSock)
    /\ LET b == rqBuf \o SubSeq(rqSock, 1, m)
       IN /\ rqBuf' = b
          /\ rqSock' = SubSeq(rqSock, m + 1, Len(rqSock))
          /\ IF HasTerminator(b)
             THEN RqAfterHeaders(b)
             ELSE UNCHANGED <<rqPc, rqNeed, rqResult>>
    /\ UNCHANGED <<respStatus, respHasCl, respCl, respPayload, rqWire, rqEof, rqTail>>
    /\ UNCHANGED notRq

\* read_buf returns 0 (end of stream): the loop ends without a terminator.
RqReadHeaderEof ==
    /\ rqPc = "hdr"
    /\ rqSock = <<>>
    /\ rqEof
    /\ RqAfterHeaders(rqBuf)
    /\ UNCHANGED <<respStatus, respHasCl, respCl, respPayload, rqWire, rqSock, rqEof,
                   rqBuf, rqTail>>
    /\ UNCHANGED notRq

\* reader.read_exact(&mut tail) takes m more bytes; when tail is full it is
\* appended to buf and the body is cut out.
RqReadExact(m) ==
    /\ rqPc = "body"
    /\ m \in 1..Min(Len(rqSock), rqNeed - Len(rqTail))
    /\ LET t == rqTail \o SubSeq(rqSock, 1, m)
       IN /\ rqTail' = t
          /\ rqSock' = SubSeq(rqSock, m + 1, Len(rqSock))
          /\ IF Len(t) = rqNeed
             THEN /\ rqBuf' = rqBuf \o t
                  /\ rqPc' = "done"
                  /\ rqResult' = RqFinish(rqBuf \o t)
             ELSE UNCHANGED <<rqBuf, rqPc, rqResult>>
    /\ UNCHANGED <<respStatus, respHasCl, respCl, respPayload, rqWire, rqEof, rqNeed>>
    /\ UNCHANGED notRq

\* read_exact meets the end of the stream: ApiError::Other("read body: ..").
RqReadExactEof ==
    /\ rqPc = "body"
    /\ rqSock = <<>>
    /\ rqEof
    /\ rqPc' = "done"
    /\ rqResult' = RqOther("read body")
    /\ UNCHANGED <<respStatus, respHasCl, respCl, respPayload, rqWire, rqSock, rqEof,
                   rqBuf, rqTail, rqNeed>>
    /\ UNCHANGED notRq

\* A read fails (e.g. ECONNRESET): ApiError::Other("read response" / "read body").
RqReadError ==
    /\ rqPc \in {"hdr", "body"}
    /\ rqPc' = "done"
    /\ rqResult' = RqOther(IF rqPc = "hdr" THEN "read response" ELSE "read body")
    /\ UNCHANGED <<respStatus, respHasCl, respCl, respPayload, rqWire, rqSock, rqEof,
                   rqBuf, rqTail, rqNeed>>
    /\ UNCHANGED notRq

\* The server's next n bytes arrive.
SrvSend(n) ==
    /\ rqPc # "done"
    /\ ~rqEof
    /\ n \in 1..Len(rqWire)
    /\ rqSock' = rqSock \o SubSeq(rqWire, 1, n)
    /\ rqWire' = SubSeq(rqWire, n + 1, Len(rqWire))
    /\ UNCHANGED <<respStatus, respHasCl, respCl, respPayload, rqEof, rqBuf, rqTail,
                   rqNeed, rqPc, rqResult>>
    /\ UNCHANGED notRq

\* The server closes the connection; what it had not sent is never sent.
SrvClose ==
    /\ rqPc # "done"
    /\ ~rqEof
    /\ rqEof' = TRUE
    /\ rqWire' = <<>>
    /\ UNCHANGED <<respStatus, respHasCl, respCl, respPayload, rqSock, rqBuf, rqTail,
                   rqNeed, rqPc, rqResult>>
    /\ UNCHANGED notRq

\* The request has been written; nothing of the response has arrived.
RqQuiet ==
    /\ rqSock = <<>>
    /\ rqEof = FALSE
    /\ rqBuf = <<>>
    /\ rqTail = <<>>
    /\ rqNeed = 0
    /\ rqPc = "hdr"
    /\ rqResult = RqNone

RqInit ==
    /\ respStatus \in {200, 500}
    /\ respHasCl \in BOOLEAN
    /\ respCl \in 0..MaxBody
    /\ respPayload \in SeqsUpTo(BodyBytes, MaxBody)
    /\ rqWire = WireOf(respHasCl, respPayload)
    /\ RqQuiet

RqOff ==
    /\ respStatus = 200
    /\ respHasCl = FALSE
    /\ respCl = 0
    /\ respPayload = <<>>
    /\ rqWire = <<>>
    /\ RqQuiet

RqNext ==
    \/ \E m \in 1..(MaxBody + 6) : RqReadHeader(m)
    \/ RqReadHeaderEof
    \/ \E m \in 1..MaxBody : RqReadExact(m)
    \/ RqReadExactEof
    \/ RqReadError
    \/ \E n \in 1..(MaxBody + 6) : SrvSend(n)
    \/ SrvClose

(***************************************************************************)
(* Part 5.  guest-init: PID 1 reap loop and shutdown                       *)
(*                                                                         *)
(* Processes: PID 1, the forked guest agent (child_pid), one command the   *)
(* agent spawns (child_pid + 1) and that command's own children (larger    *)
(* pids).  A process whose parent dies is re-parented to PID 1.            *)
(***************************************************************************)
MaxPid == 4
MaxEintr == 1

\* The pid fork() returns to PID 1: the guest agent.
child_pid == 2

\* const SHUTDOWN_GRACE_ITERATIONS
SHUTDOWN_GRACE_ITERATIONS == 10

Pids == child_pid..MaxPid
CmdPid == child_pid + 1

\* Who forks p.
ParentAtSpawn(p) == IF p = child_pid THEN 1 ELSE IF p = CmdPid THEN child_pid ELSE CmdPid

\* Ways a process ends: exit(code), or death by a signal (with or without core).
AgentCauses ==
    {[kind |-> "exit", val |-> 0, core |-> 0], [kind |-> "exit", val |-> 3, core |-> 0],
     [kind |-> "signal", val |-> 15, core |-> 0], [kind |-> "signal", val |-> 9, core |-> 0],
     [kind |-> "signal", val |-> 11, core |-> 1]}
OtherCauses == {[kind |-> "exit", val |-> 0, core |-> 0]}
NoCause == [kind |-> "none", val |-> 0, core |-> 0]

\* The wait status the kernel reports for a cause.
WStatus(c) == IF c.kind = "exit" THEN c.val * 256 ELSE c.val + c.core * 128

\* libc::WIFEXITED, WEXITSTATUS, WIFSIGNALED, WTERMSIG
WIFEXITED(st) == st % 128 = 0
WEXITSTATUS(st) == (st \div 256) % 256
WIFSIGNALED(st) == (st % 128) \notin {0, 127}
WTERMSIG(st) == st % 128

\* reap_zombies: the exit code for the watched child's status.
reap_exit_code(st) ==
    IF WIFEXITED(st) THEN WEXITSTATUS(st)
    ELSE IF WIFSIGNALED(st) THEN 128 + WTERMSIG(st)
    ELSE 1

\* An exit code that reports a signal death as the bare signal number.
wait_exit_code_bare_signal(st) ==
    IF WIFEXITED(st) THEN WEXITSTATUS(st)
    ELSE IF WIFSIGNALED(st) THEN WTERMSIG(st)
    ELSE 1

\* wait_blocking: the exit code for the child's status.
wait_exit_code(st) ==
    IF WIFEXITED(st) THEN WEXITSTATUS(st)
    ELSE IF WIFSIGNALED(st) THEN 128 + WTERMSIG(st)
    ELSE 1

\* A reaper that takes the zombies of every parent.
ReapableAnyParent == {p \in Pids : prState[p] = "zombie"}

\* waitpid(-1, WNOHANG) called by PID 1: the zombies among PID 1's children.
ReapableByPid1 == {p \in Pids : prState[p] = "zombie" /\ prParent[p] = 1}

\* A check that takes every reaped pid for the watched one.
IsWatchedAny(result) == TRUE

\* reap_zombies: result == watched_pid
IsWatched(result) == result = child_pid

\* A wait that gives up on every error.
wait_retry_never(errno) == FALSE

\* wait_blocking: errno == EINTR retries, anything else gives up.
wait_retry(errno) == errno = "EINTR"

\* One waitpid(-1, WNOHANG) of reap_zombies that returns the zombie p.  The
\* watched child ends main with its code; any other zombie is discarded.
P1Reap(p) ==
    /\ p1Pc \in {"reap", "grace_reap"}
    /\ p \in ReapableByPid1
    /\ prState' = [prState EXCEPT ![p] = "reaped"]
    /\ prReapedBy' = [prReapedBy EXCEPT ![p] = 1]
    /\ IF IsWatched(p)
       THEN /\ p1Pc' = "exited"
            /\ p1Exit' = reap_exit_code(prStatus[p])
            /\ p1Via' = "reap"
       ELSE UNCHANGED <<p1Pc, p1Exit, p1Via>>
    /\ UNCHANGED <<prParent, prStatus, prCause, agWait, shutdownFlag, p1Iter, p1Sent,
                   p1GracePolls, p1GraceSleeps, p1Eintr>>
    /\ UNCHANGED notP1

\* waitpid(-1, WNOHANG) returns 0 or -1: reap_zombies returns None.  In the
\* grace loop this ends one iteration; after the last one SIGKILL is due.
P1ReapNone ==
    /\ p1Pc \in {"reap", "grace_reap"}
    /\ ReapableByPid1 = {}
    /\ IF p1Pc = "reap"
       THEN /\ p1Pc' = "check"
            /\ UNCHANGED <<p1Iter, p1GracePolls>>
       ELSE /\ p1Iter' = p1Iter + 1
            /\ p1GracePolls' = p1GracePolls + 1
            /\ p1Pc' = IF p1Iter + 1 < SHUTDOWN_GRACE_ITERATIONS THEN "grace_sleep" ELSE "kill"
    /\ UNCHANGED <<prState, prParent, prStatus, prCause, prReapedBy, agWait, shutdownFlag,
                   p1Sent, p1GraceSleeps, p1Eintr, p1Via, p1Exit>>
    /\ UNCHANGED notP1

\* if pid1::shutdown_requested()
P1CheckShutdown ==
    /\ p1Pc = "check"
    /\ p1Pc' = IF shutdownFlag THEN "term" ELSE "sleep"
    /\ UNCHANGED <<prState, prParent, prStatus, prCause, prReapedBy, agWait, shutdownFlag,
                   p1Iter, p1Sent, p1GracePolls, p1GraceSleeps, p1Eintr, p1Via, p1Exit>>
    /\ UNCHANGED notP1

\* kill(child_pid, SIGTERM), then the grace loop starts.
P1SendTerm ==
    /\ p1Pc = "term"
    /\ p1Sent' = Append(p1Sent, "TERM")
    /\ p1Iter' = 0
    /\ p1Pc' = IF 0 < SHUTDOWN_GRACE_ITERATIONS THEN "grace_sleep" ELSE "kill"
    /\ UNCHANGED <<prState, prParent, prStatus, prCause, prReapedBy, agWait, shutdownFlag,
                   p1GracePolls, p1GraceSleeps, p1Eintr, p1Via, p1Exit>>
    /\ UNCHANGED notP1

\* thread::sleep(100 ms) at the end of the main loop.
P1Sleep ==
    /\ p1Pc = "sleep"
    /\ p1Pc' = "reap"
    /\ UNCHANGED <<prState, prParent, prStatus, prCause, prReapedBy, agWait, shutdownFlag,
                   p1Iter, p1Sent, p1GracePolls, p1GraceSleeps, p1Eintr, p1Via, p1Exit>>
    /\ UNCHANGED notP1

\* thread::sleep(100 ms) of a grace iteration, before its reap_zombies.
P1GraceSleep ==
    /\ p1Pc = "grace_sleep"
    /\ p1GraceSleeps' = p1GraceSleeps + 1
    /\ p1Pc' = "grace_reap"
    /\ UNCHANGED <<prState, prParent, prStatus, prCause, prReapedBy, agWait, shutdownFlag,
                   p1Iter, p1Sent, p1GracePolls, p1Eintr, p1Via, p1Exit>>
    /\ UNCHANGED notP1

\* kill(child_pid, SIGKILL), then wait_blocking.
P1SendKill ==
    /\ p1Pc = "kill"
    /\ p1Sent' = Append(p1Sent, "KILL")
    /\ p1Pc' = "wait"
    /\ UNCHANGED <<prState, prParent, prStatus, prCause, prReapedBy, agWait, shutdownFlag,
                   p1Iter, p1GracePolls, p1GraceSleeps, p1Eintr, p1Via, p1Exit>>
    /\ UNCHANGED notP1

\* wait_blocking: waitpid(pid, 0) returns pid.
P1WaitReaps ==
    /\ p1Pc = "wait"
    /\ prState[child_pid] = "zombie"
    /\ prParent[child_pid] = 1
    /\ prState' = [prState EXCEPT ![child_pid] = "reaped"]
    /\ prReapedBy' = [prReapedBy EXCEPT ![child_pid] = 1]
    /\ p1Pc' = "exited"
    /\ p1Exit' = wait_exit_code(prStatus[child_pid])
    /\ p1Via' = "wait"
    /\ UNCHANGED <<prParent, prStatus, prCause, agWait, shutdownFlag, p1Iter, p1Sent,
                   p1GracePolls, p1GraceSleeps, p1Eintr>>
    /\ UNCHANGED notP1

\* wait_blocking: waitpid(pid, 0) returns -1.  EINTR (a handled signal arrived
\* while blocked) retries; ECHILD (pid is no child of PID 1) returns 1.
P1WaitError(errno) ==
    /\ p1Pc = "wait"
    /\ \/ errno = "EINTR" /\ prState[child_pid] = "running" /\ p1Eintr < MaxEintr
       \/ errno = "ECHILD" /\ (prState[child_pid] = "reaped" \/ prParent[child_pid] # 1)
    /\ IF wait_retry(errno)
       THEN /\ p1Eintr' = p1Eintr + 1
            /\ UNCHANGED <<p1Pc, p1Exit, p1Via>>
       ELSE /\ p1Pc' = "exited"
            /\ p1Exit' = 1
            /\ p1Via' = "wait"
            /\ UNCHANGED p1Eintr
    /\ UNCHANGED <<prState, prParent, prStatus, prCause, prReapedBy, agWait, shutdownFlag,
                   p1Iter, p1Sent, p1GracePolls, p1GraceSleeps>>
    /\ UNCHANGED notP1

\* A handler that flips the flag on every signal.
handle_shutdown_signal_flips(flag) == ~flag

\* handle_shutdown_signal: SHUTDOWN_REQUESTED.store(true)
handle_shutdown_signal(flag) == TRUE

\* SIGTERM or SIGINT reaches PID 1, for the first time or again: the handler
\* installed by sigaction stays installed and runs on every delivery.
ShutdownSignal ==
    /\ p1Pc # "exited"
    /\ shutdownFlag' = handle_shutdown_signal(shutdownFlag)
    /\ UNCHANGED <<prState, prParent, prStatus, prCause, prReapedBy, agWait, p1Pc, p1Iter,
                   p1Sent, p1GracePolls, p1GraceSleeps, p1Eintr, p1Via, p1Exit>>
    /\ UNCHANGED notP1

\* A running process forks p.
ProcSpawn(p) ==
    /\ p1Pc # "exited"
    /\ p # child_pid
    /\ prState[p] = "none"
    /\ prState[ParentAtSpawn(p)] = "running"
    /\ prState' = [prState EXCEPT ![p] = "running"]
    /\ prParent' = [prParent EXCEPT ![p] = ParentAtSpawn(p)]
    /\ UNCHANGED <<prStatus, prCause, prReapedBy, agWait, shutdownFlag, p1Pc, p1Iter,
                   p1Sent, p1GracePolls, p1GraceSleeps, p1Eintr, p1Via, p1Exit>>
    /\ UNCHANGED notP1

\* Process p ends (exit or fatal signal) and becomes a zombie; its children,
\* running or zombie, are re-parented to PID 1.
ProcDie(p, c) ==
    /\ p1Pc # "exited"
    /\ prState[p] = "running"
    /\ c \in (IF p = child_pid THEN AgentCauses ELSE OtherCauses)
    /\ prState' = [prState EXCEPT ![p] = "zombie"]
    /\ prStatus' = [prStatus EXCEPT ![p] = WStatus(c)]
    /\ prCause' = [prCause EXCEPT ![p] = c]
    /\ prParent' = [q \in Pids |->
                      IF prParent[q] = p /\ prState[q] \in {"running", "zombie"}
                      THEN 1 ELSE prParent[q]]
    /\ UNCHANGED <<prReapedBy, agWait, shutdownFlag, p1Pc, p1Iter, p1Sent, p1GracePolls,
                   p1GraceSleeps, p1Eintr, p1Via, p1Exit>>
    /\ UNCHANGED notP1

\* The live agent calls waitpid(cmd) for the command it spawned and that has
\* ended: it gets the status if the zombie is still its child, ECHILD if not.
AgentWaitpid ==
    /\ p1Pc # "exited"
    /\ prState[child_pid] = "running"
    /\ agWait = "none"
    /\ prState[CmdPid] \in {"zombie", "reaped"}
    /\ IF prState[CmdPid] = "zombie" /\ prParent[CmdPid] = child_pid
       THEN /\ prState' = [prState EXCEPT ![CmdPid] = "reaped"]
            /\ prReapedBy' = [prReapedBy EXCEPT ![CmdPid] = child_pid]
            /\ agWait' = "ok"
       ELSE /\ agWait' = "ECHILD"
            /\ UNCHANGED <<prState, prReapedBy>>
    /\ UNCHANGED <<prParent, prStatus, prCause, shutdownFlag, p1Pc, p1Iter, p1Sent,
                   p1GracePolls, p1GraceSleeps, p1Eintr, p1Via, p1Exit>>
    /\ UNCHANGED notP1

\* PID 1 at the top of its loop; no shutdown requested yet.
P1Quiet ==
    /\ agWait = "none"
    /\ shutdownFlag = FALSE
    /\ p1Pc = "reap"
    /\ p1Iter = 0
    /\ p1Sent = <<>>
    /\ p1GracePolls = 0
    /\ p1GraceSleeps = 0
    /\ p1Eintr = 0
    /\ p1Via = "none"
    /\ p1Exit = -1
    /\ prStatus = [p \in Pids |-> 0]
    /\ prCause = [p \in Pids |-> NoCause]
    /\ prReapedBy = [p \in Pids |-> 0]
    /\ prParent = [p \in Pids |-> ParentAtSpawn(p)]

\* Right after fork(): the agent runs, nothing else exists.
P1Init ==
    /\ prState = [p \in Pids |-> IF p = child_pid THEN "running" ELSE "none"]
    /\ P1Quiet

P1Off ==
    /\ prState = [p \in Pids |-> "none"]
    /\ P1Quiet

P1Step ==
    \/ \E p \in Pids : P1Reap(p)
    \/ P1ReapNone
    \/ P1CheckShutdown
    \/ P1SendTerm
    \/ P1Sleep
    \/ P1GraceSleep
    \/ P1SendKill
    \/ P1WaitReaps
    \/ \E errno \in {"EINTR", "ECHILD"} : P1WaitError(errno)

P1Next ==
    \/ P1Step
    \/ ShutdownSignal
    \/ \E p \in Pids : ProcSpawn(p)
    \/ \E p \in Pids, c \in AgentCauses : ProcDie(p, c)
    \/ AgentWaitpid

(***************************************************************************)
(* Part 6.  Guest agent: run, execute, cleanup and the telemetry uploads   *)
(*                                                                         *)
(* The sandbox-ops log is the sequence of records record_sandbox_op has    *)
(* appended.  An upload reads the saved offset and the log's end, posts    *)
(* the records in between as one batch and, if the post succeeded, saves   *)
(* the end as the new offset.  Uploaders: "loop" is telemetry_loop's       *)
(* periodic upload, "final" is cleanup's final_upload.                     *)
(***************************************************************************)
MaxTicks == 2

Uploaders == {"loop", "final"}

\* Result<(i32, Vec<String>), AgentError> of cli::execute_cli.
CliResults ==
    {[ok |-> FALSE, code |-> 1]} \cup {[ok |-> TRUE, code |-> c] : c \in {0, 2}}

GaEnvs ==
    [api : BOOLEAN, wd : {"unset", "bad", "ok"}, cli : CliResults,
     flag : BOOLEAN, cp : BOOLEAN]

\* record_sandbox_op for each name of ops, in order.
record_sandbox_op(ops) ==
    /\ opsLog' = opsLog \o ops
    /\ opsSent' = opsSent \o [i \in 1..Len(ops) |-> 0]

\* cleanup(&masker, exit_code, ..) begins.
EnterCleanup(exit_code) ==
    /\ gaExit' = exit_code
    /\ gaPc' = "final_upload"

\* run, up to the first await: the early return path or the three spawns.
GaStart ==
    /\ gaPc = "start"
    /\ IF gaEnv.wd = "unset"
       THEN /\ EnterCleanup(1)
            /\ record_sandbox_op(IF gaEnv.api THEN <<"api_to_agent_start">> ELSE <<>>)
            /\ UNCHANGED tlState
       ELSE /\ gaPc' = "wd_setup"
            /\ tlState' = "alive"
            /\ record_sandbox_op((IF gaEnv.api THEN <<"api_to_agent_start">> ELSE <<>>)
                   \o <<"heartbeat_start", "metrics_collector_start",
                        "telemetry_upload_start">>)
            /\ UNCHANGED gaExit
    /\ UNCHANGED <<gaEnv, gaCliExit, gaCpTried, gaTrace, gaPayload, gaReturn,
                   opsPos, upPc, upFrom, upTo, gaCancelled, tlTicks>>
    /\ UNCHANGED notGa

\* execute: working directory setup.
GaWorkingDir ==
    /\ gaPc = "wd_setup"
    /\ IF gaEnv.wd = "bad"
       THEN /\ EnterCleanup(1)
            /\ record_sandbox_op(<<"working_dir_setup">>)
       ELSE /\ gaPc' = "cli"
            /\ record_sandbox_op(<<"working_dir_setup", "init_total">>)
            /\ UNCHANGED gaExit
    /\ UNCHANGED <<gaEnv, gaCliExit, gaCpTried, gaTrace, gaPayload, gaReturn,
                   opsPos, upPc, upFrom, upTo, tlState, gaCancelled, tlTicks>>
    /\ UNCHANGED notGa

\* exit_code after the match on cli::execute_cli's result.
cli_exit(res) == IF res.ok THEN res.code ELSE 1

\* execute: the CLI has run.
GaCli ==
    /\ gaPc = "cli"
    /\ gaExit' = cli_exit(gaEnv.cli)
    /\ gaCliExit' = cli_exit(gaEnv.cli)
    /\ record_sandbox_op(<<"cli_execution">>)
    /\ gaPc' = "flag"
    /\ UNCHANGED <<gaEnv, gaCpTried, gaTrace, gaPayload, gaReturn,
                   opsPos, upPc, upFrom, upTo, tlState, gaCancelled, tlTicks>>
    /\ UNCHANGED notGa

ShouldCheckpointCliOnly(cli_exit_code, exit_code) == cli_exit_code = 0

\* "Checkpoint on success".
ShouldCheckpoint(cli_exit_code, exit_code) == cli_exit_code = 0 /\ exit_code = 0

\* execute: the event-error flag check, and the return when no checkpoint is due.
GaFlagCheck ==
    /\ gaPc = "flag"
    /\ LET exit_code == IF gaEnv.flag THEN 1 ELSE gaExit
       IN  IF ShouldCheckpoint(gaCliExit, exit_code)
           THEN gaExit' = exit_code /\ gaPc' = "checkpoint"
           ELSE EnterCleanup(exit_code)
    /\ UNCHANGED <<gaEnv, gaCliExit, gaCpTried, gaTrace, gaPayload, gaReturn, opsLog,
                   opsSent, opsPos, upPc, upFrom, upTo, tlState, gaCancelled, tlTicks>>
    /\ UNCHANGED notGa

\* execute: checkpoint::create_checkpoint, and the return.
GaCheckpoint ==
    /\ gaPc = "checkpoint"
    /\ gaCpTried' = TRUE
    /\ EnterCleanup(IF gaEnv.cp THEN gaExit ELSE 1)
    /\ UNCHANGED <<gaEnv, gaCliExit, gaTrace, gaPayload, gaReturn, opsLog,
                   opsSent, opsPos, upPc, upFrom, upTo, tlState, gaCancelled, tlTicks>>
    /\ UNCHANGED notGa

\* An upload reads the saved offset and the end of the log.
UploadRead(u) ==
    /\ upPc[u] = "idle"
    /\ upFrom' = [upFrom EXCEPT ![u] = opsPos]
    /\ upTo' = [upTo EXCEPT ![u] = Len(opsLog)]
    /\ upPc' = [upPc EXCEPT ![u] = "read"]

\* The batch opsLog[from+1 .. to] reached the server.
BatchSent(u) ==
    [i \in 1..Len(opsSent) |->
        IF upFrom[u] < i /\ i <= upTo[u] THEN opsSent[i] + 1 ELSE opsSent[i]]

\* cleanup: telemetry::final_upload starts.
GaFinalRead ==
    /\ gaPc = "final_upload"
    /\ UploadRead("final")
    /\ UNCHANGED <<gaEnv, gaPc, gaExit, gaCliExit, gaCpTried, gaTrace, gaPayload,
                   gaReturn, opsLog, opsSent, opsPos, tlState, gaCancelled, tlTicks>>
    /\ UNCHANGED notGa

\* cleanup: the final upload's post succeeded.
GaFinalPost ==
    /\ gaPc = "final_upload"
    /\ upPc["final"] = "read"
    /\ opsSent' = BatchSent("final")
    /\ upPc' = [upPc EXCEPT !["final"] = "posted"]
    /\ UNCHANGED <<gaEnv, gaPc, gaExit, gaCliExit, gaCpTried, gaTrace, gaPayload,
                   gaReturn, opsLog, opsPos, upFrom, upTo, tlState, gaCancelled, tlTicks>>
    /\ UNCHANGED notGa

\* cleanup: final_upload returns (ok: offset saved; ~ok: the post failed) and
\* "final_telemetry_upload" is recorded.
GaFinalDone(ok) ==
    /\ gaPc = "final_upload"
    /\ upPc["final"] = (IF ok THEN "posted" ELSE "read")
    /\ opsPos' = (IF ok THEN upTo["final"] ELSE opsPos)
    /\ upPc' = [upPc EXCEPT !["final"] = "idle"]
    /\ record_sandbox_op(<<"final_telemetry_upload">>)
    /\ gaTrace' = Append(gaTrace, "final_upload")
    /\ gaPc' = "complete"
    /\ UNCHANGED <<gaEnv, gaExit, gaCliExit, gaCpTried, gaPayload, gaReturn,
                   upFrom, upTo, tlState, gaCancelled, tlTicks>>
    /\ UNCHANGED notGa

complete_payload_zero(exit_code) == 0

\* "exitCode" of the complete call's payload.
complete_payload(exit_code) == exit_code

\* cleanup: the complete API call (its outcome is only logged) and the record.
GaComplete ==
    /\ gaPc = "complete"
    /\ gaPayload' = complete_payload(gaExit)
    /\ gaTrace' = Append(gaTrace, "complete")
    /\ record_sandbox_op(<<"complete_api_call">>)
    /\ gaPc' = IF gaEnv.wd = "unset" THEN "return" ELSE "cancel"
    /\ UNCHANGED <<gaEnv, gaExit, gaCliExit, gaCpTried, gaReturn,
                   opsPos, upPc, upFrom, upTo, tlState, gaCancelled, tlTicks>>
    /\ UNCHANGED notGa

\* run: shutdown.cancel().
GaCancel ==
    /\ gaPc = "cancel"
    /\ gaCancelled' = TRUE
    /\ gaPc' = "return"
    /\ UNCHANGED <<gaEnv, gaExit, gaCliExit, gaCpTried, gaTrace, gaPayload, gaReturn,
                   opsLog, opsSent, opsPos, upPc, upFrom, upTo, tlState, tlTicks>>
    /\ UNCHANGED notGa

\* run returns: `return 1` on the early path, else exit_code once the
\* telemetry task has been joined.
GaReturn ==
    /\ gaPc = "return"
    /\ gaEnv.wd # "unset" => tlState = "done"
    /\ gaReturn' = IF gaEnv.wd = "unset" THEN 1 ELSE gaExit
    /\ gaPc' = "returned"
    /\ UNCHANGED <<gaEnv, gaExit, gaCliExit, gaCpTried, gaTrace, gaPayload,
                   opsLog, opsSent, opsPos, upPc, upFrom, upTo, tlState, gaCancelled,
                   tlTicks>>
    /\ UNCHANGED notGa

\* telemetry_loop: interval.tick() fired and the periodic upload starts.
TlTick ==
    /\ tlState = "alive"
    /\ tlTicks < MaxTicks
    /\ tlTicks' = tlTicks + 1
    /\ UploadRead("loop")
    /\ UNCHANGED <<gaEnv, gaPc, gaExit, gaCliExit, gaCpTried, gaTrace, gaPayload,
                   gaReturn, opsLog, opsSent, opsPos, tlState, gaCancelled>>
    /\ UNCHANGED notGa

\* telemetry_loop: the periodic upload's post succeeded.
TlPost ==
    /\ upPc["loop"] = "read"
    /\ opsSent' = BatchSent("loop")
    /\ upPc' = [upPc EXCEPT !["loop"] = "posted"]
    /\ UNCHANGED <<gaEnv, gaPc, gaExit, gaCliExit, gaCpTried, gaTrace, gaPayload, gaReturn,
                   opsLog, opsPos, upFrom, upTo, tlState, gaCancelled, tlTicks>>
    /\ UNCHANGED notGa

\* telemetry_loop: the periodic upload ends (ok: offset saved; ~ok: post failed).
TlDone(ok) ==
    /\ upPc["loop"] = (IF ok THEN "posted" ELSE "read")
    /\ opsPos' = (IF ok THEN upTo["loop"] ELSE opsPos)
    /\ upPc' = [upPc EXCEPT !["loop"] = "idle"]
    /\ UNCHANGED <<gaEnv, gaPc, gaExit, gaCliExit, gaCpTried, gaTrace, gaPayload, gaReturn,
                   opsLog, opsSent, upFrom, upTo, tlState, gaCancelled, tlTicks>>
    /\ UNCHANGED notGa

\* telemetry_loop: shutdown.cancelled() is selected at the top of the loop.
TlExit ==
    /\ tlState = "alive"
    /\ gaCancelled
    /\ upPc["loop"] = "idle"
    /\ tlState' = "done"
    /\ UNCHANGED <<gaEnv, gaPc, gaExit, gaCliExit, gaCpTried, gaTrace, gaPayload, gaReturn,
                   opsLog, opsSent, opsPos, upPc, upFrom, upTo, gaCancelled, tlTicks>>
    /\ UNCHANGED notGa

GaQuiet ==
    /\ gaExit = 0 /\ gaCliExit = -1 /\ gaCpTried = FALSE
    /\ gaTrace = <<>> /\ gaPayload = -1 /\ gaReturn = -1
    /\ opsLog = <<>> /\ opsSent = <<>> /\ opsPos = 0
    /\ upPc = [u \in Uploaders |-> "idle"]
    /\ upFrom = [u \in Uploaders |-> 0]
    /\ upTo = [u \in Uploaders |-> 0]
    /\ tlState = "none" /\ gaCancelled = FALSE /\ tlTicks = 0

GaInit ==
    /\ gaEnv \in GaEnvs
    /\ gaPc = "start"
    /\ GaQuiet

GaOff ==
    /\ gaEnv = [api |-> FALSE, wd |-> "unset", cli |-> [ok |-> FALSE, code |-> 1],
                flag |-> FALSE, cp |-> FALSE]
    /\ gaPc = "off"
    /\ GaQuiet

\* The main task.
GaStep ==
    \/ GaStart
    \/ GaWorkingDir
    \/ GaCli
    \/ GaFlagCheck
    \/ GaCheckpoint
    \/ GaFinalRead
    \/ GaFinalPost
    \/ \E ok \in BOOLEAN : GaFinalDone(ok)
    \/ GaComplete
    \/ GaCancel
    \/ GaReturn

\* The spawned telemetry task, once a tick has started an upload.
TlStep ==
    \/ TlPost
    \/ \E ok \in BOOLEAN : TlDone(ok)
    \/ TlExit

GaNext ==
    \/ GaStep
    \/ TlStep
    \/ TlTick

(***************************************************************************)
(* Part 7: guest agent heartbeat_loop                                      *)
(***************************************************************************)
MaxHbPosts == 5

any_failure_fatal(is_first) == TRUE

\* The guard of the arm `Err(e) if is_first`.
first_failure_fatal(is_first) == is_first

\* A token whose cancelled() future never completes.
cancelled_never(token) == FALSE

\* shutdown.cancelled(): completes once the token is cancelled.
cancelled(token) == token

\* select!: interval.tick() completed, the POST is sent.  The first tick is
\* ready at once and later ones when the interval has passed, which after a
\* slow POST is at once again; the branch may be ready together with
\* shutdown.cancelled(), and select! then picks one of the two at random.
HbSelectTick ==
    /\ hbPc = "select"
    /\ hbPc' = "post"
    /\ UNCHANGED <<hbIsFirst, hbCancelled, hbPosts, hbResult>>
    /\ UNCHANGED notHb

\* http::post_json(heartbeat_url, ..) returned; ok: it returned Ok(_).
HbPost(ok) ==
    /\ hbPc = "post"
    /\ hbPosts' = IF Len(hbPosts) < MaxHbPosts THEN Append(hbPosts, ok) ELSE hbPosts
    /\ IF ok
       THEN hbIsFirst' = FALSE /\ hbPc' = "select" /\ UNCHANGED hbResult
       ELSE IF first_failure_fatal(hbIsFirst)
       THEN hbResult' = "Err" /\ hbPc' = "done" /\ UNCHANGED hbIsFirst
       ELSE hbPc' = "select" /\ UNCHANGED <<hbIsFirst, hbResult>>
    /\ UNCHANGED hbCancelled
    /\ UNCHANGED notHb

\* select!: shutdown.cancelled() completed, return Ok(()).
HbSelectCancelled ==
    /\ hbPc = "select"
    /\ cancelled(hbCancelled)
    /\ hbResult' = "Ok"
    /\ hbPc' = "done"
    /\ UNCHANGED <<hbIsFirst, hbCancelled, hbPosts>>
    /\ UNCHANGED notHb

\* The owner of the token calls shutdown.cancel().
HbCancel ==
    /\ hbPc # "off"
    /\ ~hbCancelled
    /\ hbCancelled' = TRUE
    /\ UNCHANGED <<hbPc, hbIsFirst, hbPosts, hbResult>>
    /\ UNCHANGED notHb

HbInit ==
    /\ hbPc = "select" /\ hbIsFirst = TRUE /\ hbCancelled = FALSE
    /\ hbPosts = <<>> /\ hbResult = "none"

HbOff ==
    /\ hbPc = "off" /\ hbIsFirst = TRUE /\ hbCancelled = FALSE
    /\ hbPosts = <<>> /\ hbResult = "none"

HbNext ==
    \/ HbSelectTick
    \/ \E ok \in BOOLEAN : HbPost(ok)
    \/ HbSelectCancelled
    \/ HbCancel

(***************************************************************************)
(* Part 8: guest agent create_snapshot (artifact upload protocol)          *)
(*                                                                         *)
(* snLog lists the outward steps in the order they were made: requests     *)
(* ("POST ..", "PUT .. <content type>", one entry per http call) and the   *)
(* creation of the archive.                                                *)
(***************************************************************************)

\* What post_json(prepare) gives: an error, no body, a body that is not a
\* PrepareResponse, no versionId, existing: true, or upload URLs (all, or with
\* a part missing).
PrepKinds ==
    {"err", "empty", "badjson", "noid", "existing", "nouploads", "noarchive",
     "nomanifest", "new"}

\* What post_json(commit) gives: an error, no body, a body that is not a
\* CommitResponse, one without success, success: false, success: true.
CommitKinds == {"err", "empty", "unparsable", "missing", "false", "true"}

\* Local failures: a panicked blocking task or a failed file operation.
LocalFaults ==
    {"none", "hash_panic", "tempdir", "archive_panic", "manifest_write",
     "read_archive", "read_manifest"}

SnEnvs ==
    [vid : {"v-1", "v-2"}, prep : PrepKinds, fault : LocalFaults, archive : BOOLEAN,
     putA : BOOLEAN, putM : BOOLEAN, commit : CommitKinds]

SnErr(kind) == [type |-> "Err", kind |-> kind, version_id |-> ""]
SnOk(vid) == [type |-> "Ok", kind |-> "", version_id |-> vid]
SnNone == [type |-> "none", kind |-> "", version_id |-> ""]

SnReturn(res) == snResult' = res /\ snPc' = "done"

is_existing_never(prep) == FALSE

\* prep.existing.unwrap_or(false), for a response that has a versionId.
is_existing(prep) == prep = "existing"

commit_success_lenient(commit) == commit \notin {"false"}

\* commit.success == Some(true): a missing or unparsable body gives success: None.
commit_success(commit) == commit = "true"

put_failed_ignored(ok) == FALSE

\* if let Err(e) = http::put_presigned(..).await
put_failed(ok) == ~ok

\* Steps 1 and 2, and the choice of path: file hashes, the prepare call, the
\* versionId, the deduplication check, the presigned URLs.
SnPrepare ==
    /\ snPc = "prepare"
    /\ IF snEnv.fault = "hash_panic"
       THEN SnReturn(SnErr("Execution")) /\ UNCHANGED snLog
       ELSE /\ snLog' = Append(snLog, "POST prepare")
            /\ IF snEnv.prep = "err" THEN SnReturn(SnErr("PostJson"))
               ELSE IF snEnv.prep \in {"empty", "badjson", "noid"}
               THEN SnReturn(SnErr("Checkpoint"))
               ELSE IF is_existing(snEnv.prep)
               THEN snPc' = "dedup_commit" /\ UNCHANGED snResult
               ELSE IF snEnv.prep # "new" THEN SnReturn(SnErr("Checkpoint"))
               ELSE snPc' = "archive" /\ UNCHANGED snResult
    /\ UNCHANGED snEnv
    /\ UNCHANGED notSn

\* Result of a commit call.
CommitResult ==
    IF snEnv.commit = "err" THEN SnErr("PostJson")
    ELSE IF commit_success(snEnv.commit) THEN SnOk(snEnv.vid)
    ELSE SnErr("Checkpoint")

\* Step 3: the version exists, commit to update HEAD.
SnDedupCommit ==
    /\ snPc = "dedup_commit"
    /\ snLog' = Append(snLog, "POST commit")
    /\ SnReturn(CommitResult)
    /\ UNCHANGED snEnv
    /\ UNCHANGED notSn

\* Step 5: temp dir, archive (blocking task), manifest file.
SnArchive ==
    /\ snPc = "archive"
    /\ IF snEnv.fault = "tempdir" THEN SnReturn(SnErr("Io")) /\ UNCHANGED snLog
       ELSE IF snEnv.fault = "archive_panic"
       THEN SnReturn(SnErr("Execution")) /\ UNCHANGED snLog
       ELSE IF ~snEnv.archive THEN SnReturn(SnErr("Checkpoint")) /\ UNCHANGED snLog
       ELSE /\ snLog' = Append(snLog, "archive")
            /\ IF snEnv.fault = "manifest_write" THEN SnReturn(SnErr("Checkpoint"))
               ELSE snPc' = "put_archive" /\ UNCHANGED snResult
    /\ UNCHANGED snEnv
    /\ UNCHANGED notSn

\* Step 6, first half: read the archive and PUT it.
SnPutArchive ==
    /\ snPc = "put_archive"
    /\ IF snEnv.fault = "read_archive" THEN SnReturn(SnErr("Io")) /\ UNCHANGED snLog
       ELSE /\ snLog' = Append(snLog, "PUT archive application/gzip")
            /\ IF put_failed(snEnv.putA) THEN SnReturn(SnErr("Put"))
               ELSE snPc' = "put_manifest" /\ UNCHANGED snResult
    /\ UNCHANGED snEnv
    /\ UNCHANGED notSn

\* Step 6, second half: read the manifest and PUT it.
SnPutManifest ==
    /\ snPc = "put_manifest"
    /\ IF snEnv.fault = "read_manifest" THEN SnReturn(SnErr("Io")) /\ UNCHANGED snLog
       ELSE /\ snLog' = Append(snLog, "PUT manifest application/json")
            /\ IF put_failed(snEnv.putM) THEN SnReturn(SnErr("Put"))
               ELSE snPc' = "commit" /\ UNCHANGED snResult
    /\ UNCHANGED snEnv
    /\ UNCHANGED notSn

\* Step 7: commit.
SnCommit ==
    /\ snPc = "commit"
    /\ snLog' = Append(snLog, "POST commit")
    /\ SnReturn(CommitResult)
    /\ UNCHANGED snEnv
    /\ UNCHANGED notSn

SnInit ==
    /\ snEnv \in SnEnvs
    /\ snPc = "prepare" /\ snLog = <<>> /\ snResult = SnNone

SnOff ==
    /\ snEnv = [vid |-> "v-1", prep |-> "err", fault |-> "none", archive |-> FALSE,
                putA |-> FALSE, putM |-> FALSE, commit |-> "err"]
    /\ snPc = "off" /\ snLog = <<>> /\ snResult = SnNone

SnNext ==
    \/ SnPrepare
    \/ SnDedupCommit
    \/ SnArchive
    \/ SnPutArchive
    \/ SnPutManifest
    \/ SnCommit

(***************************************************************************)
(* Part 9: guest agent metrics_loop                                        *)
(*                                                                         *)
(* metrics_loop shares the shutdown token with heartbeat_loop (hbCancelled).*)
(***************************************************************************)

\* The most metrics lines the model counts.
MaxMtLines == 2

\* select!: interval.tick() completed.
MtSelectTick ==
    /\ mtPc = "select"
    /\ mtPc' = "body"
    /\ UNCHANGED mtLines
    /\ UNCHANGED notMt

\* The tick body: collect_metrics and append one line to the metrics file,
\* when it can be serialised and the file can be opened (written).
MtBody(written) ==
    /\ mtPc = "body"
    /\ mtLines' = IF written /\ mtLines < MaxMtLines THEN mtLines + 1 ELSE mtLines
    /\ mtPc' = "select"
    /\ UNCHANGED notMt

\* select!: shutdown.cancelled() completed, break.
MtSelectCancelled ==
    /\ mtPc = "select"
    /\ cancelled(hbCancelled)
    /\ mtPc' = "done"
    /\ UNCHANGED mtLines
    /\ UNCHANGED notMt

MtInit == mtPc = "select" /\ mtLines = 0

MtOff == mtPc = "off" /\ mtLines = 0

MtNext ==
    \/ MtSelectTick
    \/ \E written \in BOOLEAN : MtBody(written)
    \/ MtSelectCancelled

\* The two loops that run() starts with one token.
LoopsNext == HbNext \/ MtNext

(***************************************************************************)
(* Part 10: runner lock module (lock.rs)                                   *)
(*                                                                         *)
(* One lock file path.  Every call opens the file anew, so each caller has  *)
(* its own open file description and flock treats callers as strangers,    *)
(* whether they are tasks of one process or different processes.           *)
(***************************************************************************)

\* The callers of acquire and try_acquire.
NumLockers == 3
Lockers == 1..NumLockers

\* What a call can meet: nothing, a failure of open_lock_file (create_dir_all
\* or open), or a failure of flock other than EWOULDBLOCK.
LkFaults == {"none", "open", "flock"}

NoCall == [call |-> "none", res |-> "none", held |-> FALSE, fault |-> "none"]

\* A flock that grants the exclusive lock whoever holds it.
flock_grants_always(holder) == TRUE

\* flock(LOCK_EX): granted when no other open file description holds a lock.
flock_grants(holder) == holder = 0

\* try_acquire(path), the whole call: open_lock_file, then
\* Flock::lock(file, LockExclusiveNonblock); EWOULDBLOCK becomes the Config
\* error, any other failure an Internal error.
LkTryAcquire(p, fault) ==
    /\ lkPc[p] = "idle"
    /\ LET res == IF fault # "none" THEN "Internal"
                  ELSE IF flock_grants(lkHolder) THEN "Ok"
                  ELSE "Config"
       IN /\ lkLast' = [lkLast EXCEPT ![p] = [call |-> "try", res |-> res,
                                               held |-> lkHolder # 0,
                                               fault |-> fault]]
          /\ lkHolder' = IF res = "Ok" THEN p ELSE lkHolder
          /\ lkPc' = [lkPc EXCEPT ![p] = IF res = "Ok" THEN "held" ELSE "idle"]
    /\ UNCHANGED notLk

\* acquire(path) is called: open_lock_file, then the blocking flock starts.
LkAcquireCall(p, open_ok) ==
    /\ lkPc[p] = "idle"
    /\ IF open_ok
       THEN /\ lkPc' = [lkPc EXCEPT ![p] = "flock"]
            /\ lkLast' = [lkLast EXCEPT ![p] = [call |-> "acquire", res |-> "none",
                                                 held |-> lkHolder # 0,
                                                 fault |-> "none"]]
       ELSE /\ lkPc' = lkPc
            /\ lkLast' = [lkLast EXCEPT ![p] = [call |-> "acquire", res |-> "Internal",
                                                 held |-> lkHolder # 0,
                                                 fault |-> "open"]]
    /\ UNCHANGED lkHolder
    /\ UNCHANGED notLk

\* The blocking flock of acquire returns with the lock.
LkAcquireGranted(p) ==
    /\ lkPc[p] = "flock"
    /\ flock_grants(lkHolder)
    /\ lkHolder' = p
    /\ lkPc' = [lkPc EXCEPT ![p] = "held"]
    /\ lkLast' = [lkLast EXCEPT ![p].res = "Ok"]
    /\ UNCHANGED notLk

\* The blocking flock of acquire fails (EINTR, ENOLCK): Internal error.
LkAcquireFails(p) ==
    /\ lkPc[p] = "flock"
    /\ lkPc' = [lkPc EXCEPT ![p] = "idle"]
    /\ lkLast' = [lkLast EXCEPT ![p].res = "Internal", ![p].fault = "flock"]
    /\ UNCHANGED lkHolder
    /\ UNCHANGED notLk

\* The guard is dropped: the file is closed and the lock released.
LkDrop(p) ==
    /\ lkPc[p] = "held"
    /\ lkHolder' = 0
    /\ lkPc' = [lkPc EXCEPT ![p] = "idle"]
    /\ lkLast' = [lkLast EXCEPT ![p] = NoCall]
    /\ UNCHANGED notLk

LkInit ==
    /\ lkHolder = 0
    /\ lkPc = [p \in Lockers |-> "idle"]
    /\ lkLast = [p \in Lockers |-> NoCall]

LkOff ==
    /\ lkHolder = 0
    /\ lkPc = [p \in Lockers |-> "off"]
    /\ lkLast = [p \in Lockers |-> NoCall]

LkNext ==
    \/ \E p \in Lockers, fault \in LkFaults : LkTryAcquire(p, fault)
    \/ \E p \in Lockers, open_ok \in BOOLEAN : LkAcquireCall(p, open_ok)
    \/ \E p \in Lockers : LkAcquireGranted(p)
    \/ \E p \in Lockers : LkAcquireFails(p)
    \/ \E p \in Lockers : LkDrop(p)

(***************************************************************************)
(* Part 11: runner benchmark (benchmark.rs)                                *)
(*                                                                         *)
(* bmEnv fixes what each call of the run meets; bmLog lists the calls on    *)
(* the factory and the sandbox in the order they were made.                *)
(***************************************************************************)

\* Exit codes (i32) the VM command may report through ExecResult.
ExecExitCodes == {-1, 0, 1, 2, 255, 256, 300}

\* A RunnerResult<ExecResult> (code is the exit_code of an Ok) and what
\* run_benchmark returns (code is the ExitCode of an Ok).
BmNone == [kind |-> "none", code |-> 0]
BmErr == [kind |-> "Err", code |-> 0]
BmOk(c) == [kind |-> "Ok", code |-> c]

BmEnvs == [factory : BOOLEAN, create : BOOLEAN, start : BOOLEAN, is_snapshot : BOOLEAN,
           clock : BOOLEAN, exec : {BmErr} \cup {BmOk(c) : c \in ExecExitCodes},
           stop : BOOLEAN]

\* A conversion that keeps the low byte, as an `as u8` cast does.
exit_byte_low_byte(code) == code % 256

\* run_benchmark step 6: u8::try_from(exit_code), 1 when out of range.
exit_byte(code) == IF code \in 0..255 THEN code ELSE 1

\* A run_sandbox that returns on a stop failure.
after_stop_returns_on_failure(ok) == IF ok THEN "destroy" ELSE "shutdown"

\* run_sandbox: a stop failure is logged and destroy follows in any case.
after_stop(ok) == "destroy"

\* Steps 1 and 2: config::load, FirecrackerFactory::new, factory.startup.
BmFactory ==
    /\ bmPc = "factory"
    /\ IF bmEnv.factory
       THEN bmPc' = "create" /\ UNCHANGED bmExit
       ELSE bmPc' = "done" /\ bmExit' = BmErr
    /\ UNCHANGED <<bmEnv, bmLog, bmResult>>
    /\ UNCHANGED notBm

\* run_sandbox: factory.create(sandbox_config).
BmCreate ==
    /\ bmPc = "create"
    /\ bmLog' = Append(bmLog, "create")
    /\ IF bmEnv.create
       THEN bmPc' = "start" /\ UNCHANGED bmResult
       ELSE bmPc' = "shutdown" /\ bmResult' = BmErr
    /\ UNCHANGED <<bmEnv, bmExit>>
    /\ UNCHANGED notBm

\* run_in_sandbox: sandbox.start().
BmStart ==
    /\ bmPc = "start"
    /\ bmLog' = Append(bmLog, "start")
    /\ IF bmEnv.start
       THEN bmPc' = (IF bmEnv.is_snapshot THEN "clock" ELSE "exec") /\ UNCHANGED bmResult
       ELSE bmPc' = "stop" /\ bmResult' = BmErr
    /\ UNCHANGED <<bmEnv, bmExit>>
    /\ UNCHANGED notBm

\* run_in_sandbox: executor::fix_guest_clock(sandbox), with a snapshot only.
BmFixClock ==
    /\ bmPc = "clock"
    /\ bmLog' = Append(bmLog, "fix_clock")
    /\ IF bmEnv.clock
       THEN bmPc' = "exec" /\ UNCHANGED bmResult
       ELSE bmPc' = "stop" /\ bmResult' = BmErr
    /\ UNCHANGED <<bmEnv, bmExit>>
    /\ UNCHANGED notBm

\* run_in_sandbox: sandbox.exec(..); its result is the result of the run.
BmExec ==
    /\ bmPc = "exec"
    /\ bmLog' = Append(bmLog, "exec")
    /\ bmResult' = bmEnv.exec
    /\ bmPc' = "stop"
    /\ UNCHANGED <<bmEnv, bmExit>>
    /\ UNCHANGED notBm

\* run_sandbox: sandbox.stop().
BmStop ==
    /\ bmPc = "stop"
    /\ bmLog' = Append(bmLog, "stop")
    /\ bmPc' = after_stop(bmEnv.stop)
    /\ UNCHANGED <<bmEnv, bmResult, bmExit>>
    /\ UNCHANGED notBm

\* run_sandbox: factory.destroy(sandbox).
BmDestroy ==
    /\ bmPc = "destroy"
    /\ bmLog' = Append(bmLog, "destroy")
    /\ bmPc' = "shutdown"
    /\ UNCHANGED <<bmEnv, bmResult, bmExit>>
    /\ UNCHANGED notBm

\* run_benchmark: factory.shutdown() after run_sandbox has returned.
BmShutdown ==
    /\ bmPc = "shutdown"
    /\ bmLog' = Append(bmLog, "shutdown")
    /\ bmPc' = "propagate"
    /\ UNCHANGED <<bmEnv, bmResult, bmExit>>
    /\ UNCHANGED notBm

\* run_benchmark steps 4 to 6: `result?`, then the exit code.
BmPropagate ==
    /\ bmPc = "propagate"
    /\ bmExit' = IF bmResult.kind = "Ok" THEN BmOk(exit_byte(bmResult.code)) ELSE BmErr
    /\ bmPc' = "done"
    /\ UNCHANGED <<bmEnv, bmLog, bmResult>>
    /\ UNCHANGED notBm

BmQuiet == bmLog = <<>> /\ bmResult = BmNone /\ bmExit = BmNone

BmInit == bmEnv \in BmEnvs /\ bmPc = "factory" /\ BmQuiet

BmOff ==
    /\ bmEnv = [factory |-> FALSE, create |-> FALSE, start |-> FALSE, is_snapshot |-> FALSE,
                clock |-> FALSE, exec |-> BmErr, stop |-> FALSE]
    /\ bmPc = "off"
    /\ BmQuiet

BmNext ==
    \/ BmFactory
    \/ BmCreate
    \/ BmStart
    \/ BmFixClock
    \/ BmExec
    \/ BmStop
    \/ BmDestroy
    \/ BmShutdown
    \/ BmPropagate

(***************************************************************************)
(* Part 12: runner service subcommands (cmd/service.rs)                    *)
(*                                                                         *)
(* A suffix is a sequence of bytes.  svLog lists every external effect of   *)
(* the subcommand in order: the programs it runs, the signal it sends.     *)
(***************************************************************************)

\* The longest suffix the model draws.
MaxSuffixLen == 2

\* Bytes a suffix is drawn from: space - . / 0 ; A _ z and a non-ASCII byte.
SampleBytes == {32, 45, 46, 47, 48, 59, 65, 95, 122, 200}
Suffixes == UNION {[1..n -> SampleBytes] : n \in 0..MaxSuffixLen}

\* The subcommands that take --name; status also runs without one.
NamedCommands == {"start", "stop", "install", "uninstall", "drain", "status", "logs"}
Commands == NamedCommands \cup {"status_all"}

\* What drain meets: is-active, MainPID found, kill and disable outcomes.
SvEnvs == [active : BOOLEAN, pid : BOOLEAN, kill : BOOLEAN, disable : BOOLEAN]

\* u8::is_ascii_alphanumeric
is_ascii_alphanumeric(b) == b \in (48..57) \cup (65..90) \cup (97..122)

\* A validation that only asks for a non-empty suffix.
unit_name_ok_nonempty(suffix) == suffix # <<>>

\* unit_name: Ok when the suffix is non-empty and every byte is alphanumeric
\* or one of . - _
unit_name_ok(suffix) ==
    /\ suffix # <<>>
    /\ \A i \in 1..Len(suffix) :
          is_ascii_alphanumeric(suffix[i]) \/ suffix[i] = 46 \/ suffix[i] = 45 \/ suffix[i] = 95

\* The first external effect of a subcommand after unit_name.
FirstCall(cmd) ==
    CASE cmd \in {"start", "stop", "drain"} -> "systemctl is-active"
      [] cmd = "install" -> "sudo tee unit file"
      [] cmd = "uninstall" -> "systemctl stop"
      [] cmd \in {"status", "status_all"} -> "systemctl status"
      [] cmd = "logs" -> "journalctl"

\* A drain that reports a failed disable.
after_disable_reports_failure(ok) == IF ok THEN "Ok" ELSE "Internal"

\* drain: a failed disable is logged, Ok(()) is returned in any case.
after_disable(ok) == "Ok"

\* `let unit = unit_name(&args.name)?;` at the top of the subcommand; status
\* without --name has no suffix to validate.
SvUnitName ==
    /\ svPc = "unit_name"
    /\ IF svCmd = "status_all" \/ unit_name_ok(svSuffix)
       THEN svPc' = "first" /\ UNCHANGED svResult
       ELSE svPc' = "done" /\ svResult' = "Config"
    /\ UNCHANGED <<svCmd, svSuffix, svEnv, svLog>>
    /\ UNCHANGED notSv

\* The subcommand's first external program; for drain and stop it is
\* is_unit_active, which ends the subcommand with Ok when the unit is not
\* active.  ok: the rest of a subcommand other than drain succeeded.
SvFirstCall(ok) ==
    /\ svPc = "first"
    /\ svLog' = Append(svLog, FirstCall(svCmd))
    /\ IF svCmd = "drain"
       THEN IF svEnv.active
            THEN svPc' = "pid" /\ UNCHANGED svResult
            ELSE svPc' = "done" /\ svResult' = "Ok"
       ELSE svPc' = "done" /\ svResult' = (IF ok THEN "Ok" ELSE "Internal")
    /\ UNCHANGED <<svCmd, svSuffix, svEnv>>
    /\ UNCHANGED notSv

\* drain: get_service_pid; no main PID is an Internal error.
SvGetPid ==
    /\ svPc = "pid"
    /\ svLog' = Append(svLog, "systemctl show MainPID")
    /\ IF svEnv.pid
       THEN svPc' = "kill" /\ UNCHANGED svResult
       ELSE svPc' = "done" /\ svResult' = "Internal"
    /\ UNCHANGED <<svCmd, svSuffix, svEnv>>
    /\ UNCHANGED notSv

\* drain: kill(pid, SIGUSR1); a failure is returned.
SvKill ==
    /\ svPc = "kill"
    /\ svLog' = Append(svLog, "SIGUSR1")
    /\ IF svEnv.kill
       THEN svPc' = "disable" /\ UNCHANGED svResult
       ELSE svPc' = "done" /\ svResult' = "Internal"
    /\ UNCHANGED <<svCmd, svSuffix, svEnv>>
    /\ UNCHANGED notSv

\* drain: systemctl disable, then return.
SvDisable ==
    /\ svPc = "disable"
    /\ svLog' = Append(svLog, "systemctl disable")
    /\ svResult' = after_disable(svEnv.disable)
    /\ svPc' = "done"
    /\ UNCHANGED <<svCmd, svSuffix, svEnv>>
    /\ UNCHANGED notSv

SvInit ==
    /\ svCmd \in Commands
    /\ svSuffix \in Suffixes
    /\ svCmd = "status_all" => svSuffix = <<>>
    /\ svEnv \in SvEnvs
    /\ svCmd # "drain" => svEnv = [active |-> TRUE, pid |-> TRUE, kill |-> TRUE, disable |-> TRUE]
    /\ svPc = "unit_name"
    /\ svLog = <<>>
    /\ svResult = "none"

SvOff ==
    /\ svCmd = "status_all"
    /\ svSuffix = <<>>
    /\ svEnv = [active |-> TRUE, pid |-> TRUE, kill |-> TRUE, disable |-> TRUE]
    /\ svPc = "off"
    /\ svLog = <<>>
    /\ svResult = "none"

SvNext ==
    \/ SvUnitName
    \/ \E ok \in BOOLEAN : SvFirstCall(ok)
    \/ SvGetPid
    \/ SvKill
    \/ SvDisable

(***************************************************************************)
(* Part 13: the guest's archive downloader (guest_download::run)           *)
(*                                                                         *)
(* run reads a manifest of storages, each a mount path with an optional    *)
(* archive URL, downloads every archive and extracts it at its mount path. *)
(* The storages are downloaded in parallel, so their requests interleave.  *)
(* dlLog[s] is the list of responses the server gave for storage s.        *)
(***************************************************************************)

\* The number of storages in the manifest.
NumStorages == 2

\* The most requests one archive URL receives.
MAX_ATTEMPTS == 3

Storages == 1..NumStorages

\* What one GET of an archive can bring: a valid archive, a body that is not
\* a tar.gz, not found, too many requests, a server error.
Responses == {"200", "200bad", "404", "429", "5xx"}

retries_any_failure(r) == r # "200"

\* The responses after which the request is made again.
is_retriable(r) == r \in {"429", "5xx"}

stops_at_first_failure(anyFailed) == ~anyFailed

\* Whether the downloads still pending go on once some storage has failed.
keeps_going(anyFailed) == TRUE

AnyFailed == \E s \in Storages : dlState[s] = "failed"

\* A storage without a URL is skipped: nothing is requested for it.
DlSkip(s) ==
    /\ dlPc = "run"
    /\ dlState[s] = "pending"
    /\ ~dlUrl[s]
    /\ dlState' = [dlState EXCEPT ![s] = "skipped"]
    /\ UNCHANGED <<dlUrl, dlLog, dlPc, dlResult>>
    /\ UNCHANGED notDl

\* One GET for the archive of storage s, answered by r.  A valid archive is
\* extracted at the mount path; a retriable response leads to another
\* request while attempts remain; anything else fails the storage.  Whether
\* a 404 is requested again is not determined, so both are allowed.
DlRequest(s, r, again) ==
    /\ dlPc = "run"
    /\ dlState[s] = "pending"
    /\ dlUrl[s]
    /\ keeps_going(AnyFailed)
    /\ Len(dlLog[s]) < MAX_ATTEMPTS
    /\ again => r = "404"
    /\ dlLog' = [dlLog EXCEPT ![s] = Append(@, r)]
    /\ dlState' = [dlState EXCEPT ![s] =
           IF r = "200" THEN "extracted"
           ELSE IF (is_retriable(r) \/ again) /\ Len(dlLog[s]) + 1 < MAX_ATTEMPTS
                THEN "pending"
                ELSE "failed"]
    /\ UNCHANGED <<dlUrl, dlPc, dlResult>>
    /\ UNCHANGED notDl

\* run returns once no download goes on: true when no storage failed.
DlReturn ==
    /\ dlPc = "run"
    /\ \A s \in Storages : dlState[s] = "pending" => (dlUrl[s] /\ ~keeps_going(AnyFailed))
    /\ dlResult' = IF AnyFailed THEN "false" ELSE "true"
    /\ dlPc' = "done"
    /\ UNCHANGED <<dlUrl, dlLog, dlState>>
    /\ UNCHANGED notDl

DlInit ==
    /\ dlUrl \in [Storages -> BOOLEAN]
    /\ dlLog = [s \in Storages |-> <<>>]
    /\ dlState = [s \in Storages |-> "pending"]
    /\ dlPc = "run"
    /\ dlResult = "none"

DlOff ==
    /\ dlUrl = [s \in Storages |-> FALSE]
    /\ dlLog = [s \in Storages |-> <<>>]
    /\ dlState = [s \in Storages |-> "pending"]
    /\ dlPc = "off"
    /\ dlResult = "none"

DlNext ==
    \/ \E s \in Storages : DlSkip(s)
    \/ \E s \in Storages, r \in Responses, again \in BOOLEAN : DlRequest(s, r, again)
    \/ DlReturn

(***************************************************************************)
(* Specifications                                                          *)
(***************************************************************************)
InitGc == GcInit /\ NsInit /\ RdOff /\ RqOff /\ P1Off /\ GaOff /\ HbOff /\ SnOff /\ MtOff /\ LkOff /\ BmOff /\ SvOff /\ DlOff
SpecGc == InitGc /\ [][GcNext]_vars

InitGcHeld == GcHeldInit /\ NsInit /\ RdOff /\ RqOff /\ P1Off /\ GaOff /\ HbOff /\ SnOff /\ MtOff /\ LkOff /\ BmOff /\ SvOff /\ DlOff
SpecGcHeld == InitGcHeld /\ [][GcHeldNext]_vars

\* The gc process keeps running; runners and builders may hold their locks
\* for ever.
SpecGcHeldFair == SpecGcHeld /\ WF_vars(GcSweep)

InitNetns == GcOff /\ NsInit /\ RdOff /\ RqOff /\ P1Off /\ GaOff /\ HbOff /\ SnOff /\ MtOff /\ LkOff /\ BmOff /\ SvOff /\ DlOff
SpecNetns == InitNetns /\ [][NsNext]_vars

InitReady == GcOff /\ NsInit /\ RdInit /\ RqOff /\ P1Off /\ GaOff /\ HbOff /\ SnOff /\ MtOff /\ LkOff /\ BmOff /\ SvOff /\ DlOff
SpecReady == InitReady /\ [][RdNext]_vars

InitRequest == GcOff /\ NsInit /\ RdOff /\ RqInit /\ P1Off /\ GaOff /\ HbOff /\ SnOff /\ MtOff /\ LkOff /\ BmOff /\ SvOff /\ DlOff
SpecRequest == InitRequest /\ [][RqNext]_vars

InitPid1 == GcOff /\ NsInit /\ RdOff /\ RqOff /\ P1Init /\ GaOff /\ HbOff /\ SnOff /\ MtOff /\ LkOff /\ BmOff /\ SvOff /\ DlOff
SpecPid1 == InitPid1 /\ [][P1Next]_vars

InitAgent == GcOff /\ NsInit /\ RdOff /\ RqOff /\ P1Off /\ GaInit /\ HbOff /\ SnOff /\ MtOff /\ LkOff /\ BmOff /\ SvOff /\ DlOff
SpecAgent == InitAgent /\ [][GaNext]_vars

\* The runtime polls both tasks whenever they can make a step; when the
\* interval fires is left open.
SpecAgentFair == SpecAgent /\ WF_vars(GaStep) /\ WF_vars(TlStep)

InitHeartbeat == GcOff /\ NsInit /\ RdOff /\ RqOff /\ P1Off /\ GaOff /\ HbInit /\ SnOff /\ MtOff /\ LkOff /\ BmOff /\ SvOff /\ DlOff
SpecHeartbeat == InitHeartbeat /\ [][HbNext]_vars

InitSnapshot == GcOff /\ NsInit /\ RdOff /\ RqOff /\ P1Off /\ GaOff /\ HbOff /\ SnInit /\ MtOff /\ LkOff /\ BmOff /\ SvOff /\ DlOff
SpecSnapshot == InitSnapshot /\ [][SnNext]_vars

InitGcSeq == GcSeqInit /\ NsInit /\ RdOff /\ RqOff /\ P1Off /\ GaOff /\ HbOff /\ SnOff /\ MtOff /\ LkOff /\ BmOff /\ SvOff /\ DlOff
SpecGcSeq == InitGcSeq /\ [][GcSeqNext]_vars

InitLoops == GcOff /\ NsInit /\ RdOff /\ RqOff /\ P1Off /\ GaOff /\ HbInit /\ SnOff /\ MtInit /\ LkOff /\ BmOff /\ SvOff /\ DlOff
SpecLoops == InitLoops /\ [][LoopsNext]_vars

\* Both loops are tasks of the tokio runtime: a started tick body is run to
\* its end, and select! picks at random among the branches that are ready, so
\* a cancelled() branch that is ready again and again is taken at last.
SpecLoopsFair ==
    /\ SpecLoops
    /\ WF_vars(\E ok \in BOOLEAN : HbPost(ok))
    /\ SF_vars(HbSelectCancelled)
    /\ WF_vars(\E written \in BOOLEAN : MtBody(written))
    /\ SF_vars(MtSelectCancelled)

InitLock == GcOff /\ NsInit /\ RdOff /\ RqOff /\ P1Off /\ GaOff /\ HbOff /\ SnOff /\ MtOff /\ LkInit /\ BmOff /\ SvOff /\ DlOff
SpecLock == InitLock /\ [][LkNext]_vars

InitBenchmark == GcOff /\ NsInit /\ RdOff /\ RqOff /\ P1Off /\ GaOff /\ HbOff /\ SnOff /\ MtOff /\ LkOff /\ BmInit /\ SvOff /\ DlOff
SpecBenchmark == InitBenchmark /\ [][BmNext]_vars

InitService == GcOff /\ NsInit /\ RdOff /\ RqOff /\ P1Off /\ GaOff /\ HbOff /\ SnOff /\ MtOff /\ LkOff /\ BmOff /\ SvInit /\ DlOff
SpecService == InitService /\ [][SvNext]_vars

InitDownload == GcOff /\ NsInit /\ RdOff /\ RqOff /\ P1Off /\ GaOff /\ HbOff /\ SnOff /\ MtOff /\ LkOff /\ BmOff /\ SvOff /\ DlInit
SpecDownload == InitDownload /\ [][DlNext]_vars

\* PID 1 is a running thread: whenever it can take a step it takes one.
SpecPid1Fair == SpecPid1 /\ WF_vars(P1Step)

\* Scheduling assumed for termination: the waiter's task is polled whenever it
\* can make a step, and time passes; the socket's owner is under no obligation.
SpecReadyFair == SpecReady /\ WF_vars(RdStep) /\ WF_vars(Tick)

\* Every sandbox that holds a slot ends at some point, one way or another.
SpecNetnsFair == SpecNetns /\ \A p \in Procs : WF_vars(\E kind \in ExitKinds : NsExit(p, kind))

(***************************************************************************)
(* Properties: GC sweeper                                                  *)
(***************************************************************************)

\* The candidates the delete loop has counted so far (those past keep_count).
GcCountedIdx == (Min(gcKeep, Len(gcCands)) + 1)..gcIdx
GcCountedHashes == {gcCands[k].hash : k \in GcCountedIdx}

RECURSIVE SumSizes(_)
SumSizes(S) == IF S = {} THEN 0
               ELSE LET h == CHOOSE x \in S : TRUE IN DirSize(h) + SumSizes(S \ {h})

\* C1: a directory whose lock another process held (shared or exclusive) when
\* gc_dir probed it is not deleted by that sweep and adds nothing to freed:
\* freed is exactly the sum of the sizes of the counted candidates, none of
\* which was busy at its probe.
C1_LockedDirNotDeleted ==
    /\ \A h \in gcBusyAtProbe : dirExists[h] /\ h \notin GcCountedHashes
    /\ gcPc \in {"delete", "done"} => gcFreed = SumSizes(GcCountedHashes)

\* A finished real sweep that skipped a directory a runner holds shared and
\* deleted another one.
C1_Witness ==
    /\ gcPc = "done" /\ gcResult = "ok" /\ ~gcDry
    /\ \E h \in gcBusyAtProbe, g \in Hashes :
         /\ lockShared[h] # {} /\ dirExists[h]
         /\ g \in GcCountedHashes /\ ~dirExists[g] /\ gcFreed = DirSize(g)

\* C2: while gc_dir runs, every candidate's lock is held exclusively by gc and
\* by no runner; a directory disappears only under that lock, and the lock is
\* still held right after the removal.
C2_LockHeldUntilDeleted ==
    /\ [](gcPc \in {"scan", "delete"} =>
            \A h \in CandHashes : lockExcl[h] = "gc" /\ lockShared[h] = {})
    /\ [][\A h \in Hashes :
            (dirExists[h] /\ ~dirExists'[h]) =>
                /\ lockExcl[h] = "gc" /\ lockShared[h] = {}
                /\ lockExcl'[h] = "gc" /\ lockShared'[h] = {}]_vars

\* gc has removed a candidate's directory and still holds its lock, while the
\* runner holds another hash.
C2_Witness ==
    /\ gcPc = "delete"
    /\ \E h \in CandHashes, g \in Hashes :
         /\ ~dirExists[h] /\ lockExcl[h] = "gc"
         /\ g # h /\ lockShared[g] # {}

(***************************************************************************)
(* Properties: netns pool                                                  *)
(***************************************************************************)

\* C3: no slot's lock has two holders, and no two live guards name one slot.
C3_OneHolderPerSlot ==
    /\ \A i \in Slots : Cardinality(nsHolders[i]) <= 1
    /\ \A p, q \in Procs :
         (p # q /\ nsPc[p] = "held" /\ nsPc[q] = "held") => nsSlot[p] # nsSlot[q]

\* Two guards are live on different slots and a third acquisition found both locked.
C3_Witness ==
    \E p, q, r \in Procs :
        /\ p # q /\ nsPc[p] = "held" /\ nsPc[q] = "held"
        /\ nsSlot[p] # nsSlot[q]
        /\ r \notin {p, q} /\ {nsSlot[p], nsSlot[q]} \subseteq nsSawHeld[r]

\* C4: a slot that is locked is free again later: no exit path of its holder
\* (drop, panic, death of the process) leaves the lock behind.
C4_SlotEventuallyReleased ==
    \A i \in Slots : (nsHolders[i] # {}) ~> (nsHolders[i] = {})

\* A holder has panicked, and every slot (its former one included) is held by
\* some other process.
C4_Witness ==
    \E p \in Procs :
        /\ nsExit[p] = "panic" /\ nsPc[p] = "idle"
        /\ \A i \in Slots : nsHolders[i] # {} /\ p \notin nsHolders[i]

\* C5: the scan goes through the indices in order and takes the first free
\* one; it ends with NoPoolIndexAvailable exactly when all N locks were held
\* when tried; and a scan step never waits for a lock.
C5_FirstFreeOrNoneAvailable ==
    \A p \in Procs :
        /\ nsPc[p] = "fail" => nsSawHeld[p] = Slots
        /\ nsSawHeld[p] = Slots => nsPc[p] = "fail"
        /\ nsPc[p] = "held" => nsSawHeld[p] = 0..(nsSlot[p] - 1)
        /\ nsPc[p] = "scan" =>
             /\ nsIdx[p] < NumSlots
             /\ nsSawHeld[p] = 0..(nsIdx[p] - 1)
             /\ ENABLED NsTry(p, FALSE)

\* One acquisition found every slot locked while another took a slot past index 0.
C5_Witness ==
    \E p, q \in Procs :
        /\ nsPc[p] = "fail" /\ nsSawHeld[p] = Slots
        /\ nsPc[q] = "held" /\ nsSlot[q] > 0

(***************************************************************************)
(* Properties: wait_for_ready                                              *)
(***************************************************************************)

TimedOutSocketFile == OtherErr("timed out waiting for socket file")
TimedOutApiReady == OtherErr("timed out waiting for API ready")

\* The step completes a GET / probe with outcome rdLast'.
ProbeCompletes ==
    /\ rdPc \in {"connect", "await"}
    /\ rdPc' # rdPc
    /\ rdLast'.type \in {"Ok", "Connect", "Http", "Other"}

\* A 10 ms pause starts with this step.
PauseStarts == rdPc' = "sleep" /\ rdWake' = Min(now + PollPause, MaxTime)

\* The pause ends only once it has lasted, and only into the next probe.
PauseThenProbe == (rdPc = "sleep" /\ rdPc' # "sleep") => (rdPc' = "connect" /\ now >= rdWake)

\* Nothing happens after the return.
NoStepAfterReturn ==
    rdPc = "done" => (rdPc' = "done" /\ rdProbes' = rdProbes /\ rdResult' = rdResult)

\* C6: wait_for_ready returns, whatever the socket and the server do.
C6_AlwaysReturns == <>(rdPc = "done")

\* C7: a connect error other than ConnectionRefused ends the wait at once with
\* that error (no pause, no further probe); ConnectionRefused starts a 10 ms
\* pause which is followed by another probe.
C7_ConnectErrorHandling ==
    [][/\ (ProbeCompletes /\ rdLast'.type = "Connect" /\ rdLast'.kind # "ConnectionRefused")
            => (rdPc' = "done" /\ rdResult' = rdLast')
       /\ (ProbeCompletes /\ rdLast' = ConnectErr("ConnectionRefused"))
            => (PauseStarts /\ rdResult' = NoErr)
       /\ PauseThenProbe
       /\ NoStepAfterReturn]_vars

\* A refused probe was retried after its pause, and the retry was denied.
C7_Witness ==
    /\ rdPc = "done"
    /\ rdResult = ConnectErr("PermissionDenied")
    /\ rdProbes >= 2

\* An error the claim calls fatal: a connect error other than refused, or a 4xx
\* response other than 429.
FatalAsClaimed(e) ==
    \/ e.type = "Connect" /\ e.kind # "ConnectionRefused"
    \/ e.type = "Http" /\ e.status \in 400..499 /\ e.status # 429

\* C8 as stated: connect-refused and Other are retried, PermissionDenied and
\* 4xx other than 429 are returned at once.
C8_Original ==
    [][ProbeCompletes /\ rdLast'.type # "Ok" =>
          IF FatalAsClaimed(rdLast')
          THEN rdPc' = "done" /\ rdResult' = rdLast'
          ELSE PauseStarts]_vars

\* C8 amended: the only fatal errors are connect errors other than
\* ConnectionRefused; every non-2xx response (4xx included) and every Other
\* error is retried after the pause; a fatal error is returned at once.
C8_FatalIsConnectOnly ==
    [][ProbeCompletes /\ rdLast'.type # "Ok" =>
          IF rdLast'.type = "Connect" /\ rdLast'.kind # "ConnectionRefused"
          THEN rdPc' = "done" /\ rdResult' = rdLast'
          ELSE PauseStarts /\ rdResult' = NoErr]_vars

\* A 400 response has just been classified as retryable.
C8_Witness == rdLast = HttpErr(400) /\ rdPc = "sleep" /\ rdStatus = 400

C10_OkOnlyAfter2xx ==
    /\ [](rdResult = OkRes => (sockExists /\ rdStatus \in 200..299 /\ rdProbes >= 1))
    /\ [][/\ (ProbeCompletes /\ rdLast'.type \in {"Ok", "Http"} /\ rdStatus' >= 500)
               => (PauseStarts /\ rdResult' = NoErr)
          /\ PauseThenProbe]_vars

\* Success after a probe that was answered 5xx.
C10_Witness == rdResult = OkRes /\ rdSaw5xx /\ rdProbes >= 2

\* Errors of wait_for_socket_file's own machinery (inotify init/watch, AsyncFd,
\* readable).
WatchErrors == {OtherErr("inotify"), OtherErr("AsyncFd"), OtherErr("inotify readable")}

\* C11 as stated: whenever the file never appeared, the wait ends with the
\* 'timed out waiting for socket file' error.
C11_Original ==
    (rdPc = "done" /\ ~sockExists) => rdResult = TimedOutSocketFile

\* C11 amended: while the file has not appeared no GET / probe is issued; if it
\* never appears the wait ends, and it ends either exactly at the deadline with
\* 'timed out waiting for socket file' or no later with the error of a failed
\* inotify set-up or read.
C11_NoSocketTimesOut ==
    /\ [](~sockExists => rdProbes = 0)
    /\ []((rdPc = "done" /\ ~sockExists) =>
            \/ rdResult = TimedOutSocketFile /\ now = rdDeadline
            \/ rdResult \in WatchErrors /\ now <= rdDeadline)
    /\ (([]~sockExists) => <>(rdPc = "done"))

\* The file never appeared, the waiter was woken by another file's creation,
\* and the wait ended with the time-out at the deadline.
C11_Witness ==
    /\ rdPc = "done" /\ ~sockExists /\ rdResult = TimedOutSocketFile
    /\ dirEvents >= 1 /\ ~inoPending /\ rdProbes = 0 /\ now = rdDeadline

(***************************************************************************)
(* Properties: ApiClient::request                                          *)
(***************************************************************************)

\* The Content-Length the response declares (0 without the header line).
DeclaredLength == IF respHasCl THEN respCl ELSE 0

\* The bytes the declared length covers (as many of them as the server sends).
DeclaredBody == SubSeq(respPayload, 1, Min(DeclaredLength, Len(respPayload)))

\* Payload bytes request has taken from the stream so far.
PayloadConsumed ==
    IF HasTerminator(rqBuf) THEN already_read(rqBuf) + Len(rqTail) ELSE 0

SentKill == \E k \in 1..Len(p1Sent) : p1Sent[k] = "KILL"

\* C13: once the shutdown flag is set PID 1 sends SIGTERM (unless the child is
\* reaped first); SIGTERM comes first and only after the flag; SIGKILL is sent
\* once, after SIGTERM and after all 10 grace polls, each preceded by its sleep,
\* returned None; and after SIGKILL PID 1 leaves the blocking wait only by
\* reaping the child, whatever EINTR it meets.
C13_TermGraceKillWait ==
    /\ [](p1Sent # <<>> => (p1Sent[1] = "TERM" /\ shutdownFlag /\ Len(p1Sent) <= 2))
    /\ [](p1GracePolls <= p1GraceSleeps /\ p1GraceSleeps <= p1GracePolls + 1
            /\ p1GraceSleeps <= SHUTDOWN_GRACE_ITERATIONS)
    /\ [](p1GraceSleeps > 0 => p1Sent # <<>>)
    /\ [](SentKill => /\ p1Sent = <<"TERM", "KILL">>
                      /\ p1GracePolls = SHUTDOWN_GRACE_ITERATIONS
                      /\ p1GraceSleeps = SHUTDOWN_GRACE_ITERATIONS)
    /\ []((SentKill /\ p1Pc # "exited") => (p1Pc = "wait" /\ prReapedBy[child_pid] = 0))
    /\ []((SentKill /\ p1Pc = "exited") => (p1Via = "wait" /\ prReapedBy[child_pid] = 1))
    /\ (shutdownFlag ~> (p1Sent # <<>> \/ p1Pc = "exited"))

\* After SIGTERM, ten empty polls and SIGKILL, the blocking wait was interrupted
\* once and then reaped the child.
C13_Witness ==
    /\ p1Pc = "exited" /\ p1Via = "wait" /\ p1Sent = <<"TERM", "KILL">>
    /\ p1Eintr >= 1 /\ prReapedBy[child_pid] = 1

ExpectedCode(c) ==
    IF c.kind = "exit" THEN c.val
    ELSE IF c.kind = "signal" THEN 128 + c.val
    ELSE 1

\* Wait statuses of every kind: exits, signal deaths with and without core,
\* and a stopped child.
SampleStatuses ==
    {WStatus(c) : c \in AgentCauses} \cup {127 + 256 * 19, 255 * 256, 128 + 6}

\* C15: when the watched child has been reaped, guest-init's exit code is the
\* child's exit status, or 128 + the signal that killed it; and reap_zombies
\* and wait_blocking give the same code for every wait status (1 for a status
\* that is neither).
C15_ExitCodePropagated ==
    /\ (p1Pc = "exited" /\ prReapedBy[child_pid] = 1) =>
          p1Exit = ExpectedCode(prCause[child_pid])
    /\ \A st \in SampleStatuses :
          /\ reap_exit_code(st) = wait_exit_code(st)
          /\ (~WIFEXITED(st) /\ ~WIFSIGNALED(st)) => wait_exit_code(st) = 1

\* The child was killed by SIGKILL and collected by wait_blocking: exit code 137.
C15_Witness ==
    /\ p1Pc = "exited" /\ p1Via = "wait"
    /\ prCause[child_pid].kind = "signal" /\ prCause[child_pid].val = 9
    /\ p1Exit = 137

\* C16: reaping a process other than the watched child neither ends guest-init
\* nor changes its exit code, and reap_zombies yields an exit code only for the
\* watched child.
C16_OrphansDiscarded ==
    /\ [][(\E p \in Pids : p # child_pid /\ prReapedBy[p] = 0 /\ prReapedBy'[p] = 1)
            => (p1Pc' = p1Pc /\ p1Exit' = p1Exit /\ p1Via' = p1Via)]_vars
    /\ [](p1Via = "reap" => (prReapedBy[child_pid] = 1
                             /\ p1Exit = reap_exit_code(prStatus[child_pid])))
    /\ [](p1Pc # "exited" => p1Exit = -1)

\* PID 1 has reaped an orphan and is still running with the agent alive.
C16_Witness ==
    /\ \E p \in Pids : p # child_pid /\ prReapedBy[p] = 1
    /\ p1Pc # "exited" /\ prState[child_pid] = "running" /\ p1Exit = -1

(***************************************************************************)
(* Properties: guest agent                                                 *)
(***************************************************************************)

\* C17: every sandbox-op record is in at most one uploaded batch at any time,
\* and when run has returned every record written is in exactly one.
C17_EveryOpUploadedOnce ==
    /\ \A i \in 1..Len(opsSent) : opsSent[i] <= 1
    /\ gaPc = "returned" => \A i \in 1..Len(opsSent) : opsSent[i] = 1

\* C18: the periodic upload and the final upload are never both between
\* reading the offset and finishing.
C18_OneUploaderAtATime ==
    ~(upPc["loop"] # "idle" /\ upPc["final"] # "idle")

\* C19: cleanup's steps happen in the order final upload, complete call, each
\* at most once; when run has returned both have happened and the exitCode of
\* the complete payload is the code run returned.
C19_CleanupOnceThenReturn ==
    /\ gaTrace \in {<<>>, <<"final_upload">>, <<"final_upload", "complete">>}
    /\ gaPc = "returned" =>
          /\ gaTrace = <<"final_upload", "complete">>
          /\ gaPayload = gaReturn

\* run returned 1 after a successful CLI whose checkpoint failed.
C19_Witness ==
    /\ gaPc = "returned" /\ gaCpTried /\ ~gaEnv.cp
    /\ gaReturn = 1 /\ gaPayload = 1

\* execute has returned (the CLI ran, so the working directory was set up).
ExecuteReturned == gaCliExit # -1 /\ gaPc \notin {"flag", "checkpoint"}
CliExitedZero == gaCliExit # -1 /\ gaEnv.cli.ok /\ gaEnv.cli.code = 0

\* C20: execute's exit code is 0 exactly when the CLI exited 0, the flag file
\* was absent and the checkpoint succeeded; a zero CLI exit becomes 1 when the
\* flag exists or the checkpoint fails; the checkpoint is attempted only after
\* a zero CLI exit with the flag absent.
C20_ExitCodeRule ==
    /\ ExecuteReturned =>
          (gaExit = 0 <=> (CliExitedZero /\ ~gaEnv.flag /\ gaCpTried /\ gaEnv.cp))
    /\ (ExecuteReturned /\ CliExitedZero /\ (gaEnv.flag \/ (gaCpTried /\ ~gaEnv.cp)))
          => gaExit = 1
    /\ gaCpTried => (CliExitedZero /\ ~gaEnv.flag)
    /\ gaPc = "checkpoint" => (CliExitedZero /\ ~gaEnv.flag)

\* The CLI exited 0, the flag file existed: exit code 1 and no checkpoint.
C20_Witness ==
    /\ ExecuteReturned /\ CliExitedZero /\ gaEnv.flag
    /\ gaExit = 1 /\ ~gaCpTried

(***************************************************************************)
(* Properties: heartbeat_loop                                              *)
(***************************************************************************)

\* C21: heartbeat_loop has returned Err exactly when its first POST failed;
\* after a successful first POST failures do not end the loop, which returns
\* only Ok and only once the shutdown token is cancelled.
C21_FirstFailureFatal ==
    /\ hbResult = "Err" <=> (hbPosts # <<>> /\ ~hbPosts[1])
    /\ hbResult = "Err" => Len(hbPosts) = 1
    /\ (hbPosts # <<>> /\ hbPosts[1]) => (hbPc = "done" => (hbResult = "Ok" /\ hbCancelled))
    /\ hbResult = "Ok" => hbCancelled
    /\ hbPc = "done" <=> hbResult # "none"

\* A POST failed after the first had succeeded; the loop went on to a third
\* POST and returned Ok after the cancellation.
C21_Witness ==
    /\ Len(hbPosts) >= 3 /\ hbPosts[1] /\ ~hbPosts[2]
    /\ hbCancelled /\ hbResult = "Ok"

(***************************************************************************)
(* Properties: create_snapshot                                             *)
(***************************************************************************)

IsRequest(step) == step # "archive"
Requests == SelectSeq(snLog, IsRequest)
InLog(step) == \E i \in 1..Len(snLog) : snLog[i] = step
IsPrefix(s, t) == Len(s) <= Len(t) /\ s = SubSeq(t, 1, Len(s))

\* C22: when prepare answers with a versionId and existing: true, the only
\* request after it is one POST to commit, no archive is created and nothing is
\* PUT; if the commit reports success the result carries prepare's versionId.
C22_DedupCommitsOnly ==
    (snEnv.prep = "existing" /\ snEnv.fault # "hash_panic") =>
        /\ IsPrefix(snLog, <<"POST prepare", "POST commit">>)
        /\ snPc = "done" => snLog = <<"POST prepare", "POST commit">>
        /\ (snPc = "done" /\ snEnv.commit = "true") => snResult = SnOk(snEnv.vid)

\* The dedup path ended with the second version id.
C22_Witness ==
    /\ snPc = "done" /\ snEnv.prep = "existing" /\ snEnv.vid = "v-2"
    /\ snLog = <<"POST prepare", "POST commit">> /\ snResult = SnOk("v-2")

NewUploadOrder ==
    <<"POST prepare", "archive", "PUT archive application/gzip",
      "PUT manifest application/json", "POST commit">>

\* C23: on the new-upload path the steps made are always a prefix of prepare,
\* archive, archive PUT, manifest PUT, commit; a step is made only if every
\* earlier one succeeded, a failure ends the call with an error, and commit is
\* never posted after a failed archive creation or PUT.
C23_UploadOrder ==
    snEnv.prep = "new" =>
        /\ IsPrefix(snLog, NewUploadOrder)
        /\ InLog("PUT archive application/gzip") =>
              (snEnv.archive /\ snEnv.fault \notin {"tempdir", "archive_panic", "manifest_write",
                                                   "read_archive"})
        /\ InLog("PUT manifest application/json") =>
              (snEnv.putA /\ snEnv.fault # "read_manifest")
        /\ InLog("POST commit") => (snEnv.archive /\ snEnv.putA /\ snEnv.putM
                                      /\ snEnv.fault = "none")
        /\ (snPc = "done" /\ ~InLog("POST commit")) => snResult.type = "Err"
        /\ snResult.type = "Ok" => snLog = NewUploadOrder

\* The manifest PUT failed: an error, and no commit.
C23_Witness ==
    /\ snPc = "done" /\ snEnv.prep = "new" /\ ~snEnv.putM
    /\ snLog = SubSeq(NewUploadOrder, 1, 4) /\ snResult = SnErr("Put")

\* C24: create_snapshot returns Ok only if the commit response has success:
\* true; when the commit call gives no body, an unparsable body, no success
\* field or success: false, the result is a Checkpoint error, on both paths.
C24_CommitMustSucceed ==
    /\ snResult.type = "Ok" => (snEnv.commit = "true" /\ InLog("POST commit"))
    /\ (snPc = "done" /\ InLog("POST commit")
        /\ snEnv.commit \in {"empty", "unparsable", "missing", "false"})
          => snResult = SnErr("Checkpoint")

\* A commit response without a success field failed the new-upload path.
C24_Witness ==
    /\ snPc = "done" /\ snEnv.prep = "new" /\ snEnv.commit = "missing"
    /\ InLog("POST commit") /\ snResult = SnErr("Checkpoint")

(***************************************************************************)
(* Properties: sequences of gc runs                                        *)
(***************************************************************************)

\* An entry gc_dir finds unused: it exists, no runner holds its lock and its
\* lock file can be opened.
IsFreeEntry(h) == gcBefore[h] /\ lockShared[h] = {} /\ gcFault[h] # "lock"

\* The candidates beyond keep_latest.
BeyondKeep == {gcCands[i].hash : i \in (gcKeep + 1)..Len(gcCands)}

\* C25: a gc_dir run that returned Ok with keep_latest = k has as candidates
\* exactly the unused entries, has kept the first k of them, none of which is
\* older than a deleted one, has deleted exactly the others and has left
\* every other entry alone; with at most k candidates nothing is deleted and
\* with k = 0 (keep_latest absent) every candidate is.
C25_KeepsNewest ==
    (gcPc = "done" /\ gcResult = "ok" /\ gcRun = 1 /\ ~gcDry) =>
        LET n == Len(gcCands)
            k == Min(gcKeep, n)
        IN  /\ CandHashes = {h \in Hashes : IsFreeEntry(h)}
            /\ \A i \in 1..n : dirExists[gcCands[i].hash] <=> i <= gcKeep
            /\ \A i \in 1..k, j \in (k + 1)..n : gcCands[i].mtime >= gcCands[j].mtime
            /\ \A h \in Hashes \ CandHashes : dirExists[h] = gcBefore[h]
            /\ n <= gcKeep => dirExists = gcBefore
            /\ gcKeep = 0 => \A h \in CandHashes : ~dirExists[h]

\* Two candidates of different age, keep_latest = 1: the newer one is left.
C25_Witness ==
    /\ gcPc = "done" /\ gcResult = "ok" /\ gcRun = 1 /\ ~gcDry /\ gcKeep = 1
    /\ Len(gcCands) = 2 /\ gcCands[1].mtime > gcCands[2].mtime
    /\ dirExists[gcCands[1].hash] /\ ~dirExists[gcCands[2].hash]

\* C26: the second of two runs with the same arguments, with no change to
\* the directories or locks in between, removes no directory, and the total
\* it reports as freed (dry_run not set) is zero.
C26_SecondRunFreesNothing ==
    /\ gcRun = 2 => dirExists = gcBefore
    /\ (gcRun = 2 /\ gcPc = "done" /\ ~gcDry) => gcFreed = 0

\* The first run deleted a directory (one that had been touched), the second
\* found nothing to free.
C26_Witness ==
    /\ gcRun = 2 /\ gcPc = "done" /\ ~gcDry /\ gcResult = "ok" /\ gcFreed = 0
    /\ \E h \in Hashes : dirOwn[h] > 0 /\ ~dirExists[h]

\* C27: an entry whose name is not a content hash is never probed (gc never
\* holds its lock), never a candidate and never deleted.
C27_OnlyHashNames ==
    \A h \in Hashes \ ContentHashes :
        /\ lockExcl[h] # "gc"
        /\ h \notin CandHashes
        /\ (gcRun >= 1 /\ gcBefore[h]) => dirExists[h]

\* C28: a dry run removes nothing and returns Ok, and the total of a run that
\* returned Ok, dry or not, is the sum of the sizes of the candidates beyond
\* keep_latest.
C28_DryRunCountsOnly ==
    /\ (gcRun >= 1 /\ gcDry) => dirExists = gcBefore
    /\ (gcRun >= 1 /\ gcDry /\ gcPc = "done") => gcResult = "ok"
    /\ (gcRun >= 1 /\ gcPc = "done" /\ gcResult = "ok") => gcFreed = SumSizes(BeyondKeep)

\* A dry run reported the size of a candidate that is still there.
C28_Witness ==
    /\ gcRun = 1 /\ gcDry /\ gcPc = "done" /\ gcFreed > 0
    /\ \E h \in BeyondKeep : dirExists[h] /\ gcFreed >= DirSize(h)

\* C29: a candidate whose own mtime touch_mtime has set to a time later than
\* the mtime of every other candidate is ranked first by a run with
\* keep_latest >= 1, and kept.
C29_TouchedIsKept ==
    (gcPc = "done" /\ gcResult = "ok" /\ gcRun = 1 /\ gcKeep >= 1) =>
        \A d \in CandHashes :
            (/\ dirOwn[d] > 0
             /\ \A i \in 1..Len(gcCands) :
                    gcCands[i].hash # d => dirOwn[d] > gcCands[i].mtime)
            => (gcCands[1].hash = d /\ dirExists[d])

(***************************************************************************)
(* Properties: the shutdown flag of PID 1                                  *)
(***************************************************************************)

\* C40: once a SIGTERM or SIGINT has set the shutdown flag no step clears it,
\* and every later shutdown_requested() check of the reap loop reads true and
\* goes on to terminate the child.
C40_FlagNeverCleared ==
    [][/\ shutdownFlag => shutdownFlag'
       /\ (shutdownFlag /\ p1Pc = "check" /\ p1Pc' # p1Pc) => p1Pc' = "term"]_vars

\* The flag was set, a later check saw it and SIGTERM went to the child.
C40_Witness ==
    /\ shutdownFlag
    /\ p1Sent # <<>>
    /\ p1GracePolls >= 1

(***************************************************************************)
(* Properties: background loops and the shutdown token                     *)
(***************************************************************************)

C39_SweepNeverWaits ==
    /\ (gcPc \notin {"idle", "done"}) ~> (gcPc = "done")
    /\ [][(gcPc = "scan" /\ gcPc' = "scan") =>
             /\ gcTodo' \subseteq gcTodo
             /\ Cardinality(gcTodo') >= Cardinality(gcTodo) - 1]_vars

\* A sweep ended while a lock it had found held is still held.
C39_Witness ==
    /\ gcPc = "done"
    /\ \E h \in gcBusyAtProbe : HeldByOther(h)

(***************************************************************************)
(* Properties: exclusive lock guards                                       *)
(***************************************************************************)

\* The callers that have a guard.
Guards == {p \in Lockers : lkPc[p] = "held"}

\* C37 as stated: a try_acquire made while a guard is alive returns the
\* Config error.
C37_Original ==
    \A p \in Lockers :
        (lkLast[p].call = "try" /\ lkLast[p].held) => lkLast[p].res = "Config"

\* C37 amended: at most one guard is alive; a guard ends only by its own
\* drop; a try_acquire made while a guard is alive gets no guard: it returns
\* the Config error, or an Internal error when opening the file or the flock
\* call itself failed; an acquire pending while a guard is alive has not
\* returned a guard; a try_acquire that met no guard and no failure got one.
C37_OneGuardPerPath ==
    /\ [](/\ Cardinality(Guards) <= 1
          /\ \A p \in Lockers : p \in Guards <=> lkHolder = p
          /\ \A p \in Lockers :
               (lkLast[p].call = "try" /\ lkLast[p].held) =>
                   /\ lkLast[p].res = (IF lkLast[p].fault = "none" THEN "Config" ELSE "Internal")
                   /\ p \notin Guards
          /\ \A p \in Lockers :
               (lkLast[p].call = "try" /\ ~lkLast[p].held /\ lkLast[p].fault = "none") =>
                   lkLast[p].res = "Ok")
    /\ [][\A p \in Lockers :
            /\ (lkHolder = p /\ lkHolder' # p) => (lkHolder' = 0 /\ lkPc'[p] = "idle")
            /\ (lkPc[p] = "flock" /\ lkPc'[p] = "held") => lkHolder = 0]_vars

\* One caller holds the guard, a second was turned away with the Config
\* error and a third waits in acquire.
C37_Witness ==
    \E p, q, r \in Lockers :
        /\ p \in Guards
        /\ lkLast[q].call = "try" /\ lkLast[q].held /\ lkLast[q].res = "Config"
        /\ lkPc[r] = "flock" /\ lkLast[r].held

(***************************************************************************)
(* Properties: benchmark                                                   *)
(***************************************************************************)

\* How often a call is in the log.
BmCount(call) == Cardinality({i \in 1..Len(bmLog) : bmLog[i] = call})

\* The run got as far as the VM command, which reported a code.
BmRanCommand == bmPc = "done" /\ bmResult.kind = "Ok"

\* C35 as stated: the process exits with the VM command's exit code clamped
\* to 0..255.
C35_Original ==
    BmRanCommand =>
        bmExit = BmOk(IF bmResult.code < 0 THEN 0
                      ELSE IF bmResult.code > 255 THEN 255
                      ELSE bmResult.code)

\* C35 amended: a code within 0..255 is the exit code of the process, any
\* other code is replaced by 1.
C35_ExitCodeOrOne ==
    BmRanCommand =>
        /\ bmResult.code \in 0..255 => bmExit = BmOk(bmResult.code)
        /\ bmResult.code \notin 0..255 => bmExit = BmOk(1)

\* A command that ended with 300 gave the exit code 1.
C35_Witness == BmRanCommand /\ bmResult.code = 300 /\ bmExit = BmOk(1)

\* C36: when factory.create succeeded, a finished run has called stop once
\* and destroy once, in this order, whatever start, the clock fix, exec and
\* stop returned; shutdown is called once, after everything else, on every
\* outcome of run_sandbox, and before the result is propagated.
C36_StopDestroyShutdown ==
    /\ (bmPc \in {"propagate", "done"} /\ bmLog # <<>>) =>
          /\ bmLog[Len(bmLog)] = "shutdown"
          /\ BmCount("shutdown") = 1
          /\ BmCount("create") = 1
          /\ IF bmEnv.create
             THEN /\ BmCount("stop") = 1 /\ BmCount("destroy") = 1
                  /\ bmLog[Len(bmLog) - 2] = "stop"
                  /\ bmLog[Len(bmLog) - 1] = "destroy"
             ELSE bmLog = <<"create", "shutdown">>
    /\ (bmExit # BmNone /\ bmEnv.factory) => BmCount("shutdown") = 1

\* start succeeded, exec failed and stop failed: destroy and shutdown were
\* still called.
C36_Witness ==
    /\ bmPc = "done" /\ bmEnv.start /\ bmEnv.exec = BmErr /\ ~bmEnv.stop
    /\ Len(bmLog) >= 2 /\ bmLog[Len(bmLog) - 1] = "destroy"
    /\ bmExit = BmErr

(***************************************************************************)
(* Properties: service subcommands                                         *)
(***************************************************************************)

\* The bytes of [A-Za-z0-9._-].
SuffixBytes == (65..90) \cup (97..122) \cup (48..57) \cup {46, 95, 45}

SuffixIsValid(s) == s # <<>> /\ \A i \in 1..Len(s) : s[i] \in SuffixBytes

DrainDone == svCmd = "drain" /\ svPc = "done" /\ SuffixIsValid(svSuffix)

\* C34: drain of a unit that is not active sends no signal, changes nothing
\* and returns Ok; on an active unit whose main PID is known it sends SIGUSR1,
\* then disables the unit and returns Ok, whether or not the disable worked,
\* with nothing after the disable; when the signal fails it returns an error
\* and does not disable.
C34_DrainSignalsThenDisables ==
    DrainDone =>
        /\ ~svEnv.active =>
              (svLog = <<"systemctl is-active">> /\ svResult = "Ok")
        /\ (svEnv.active /\ svEnv.pid /\ svEnv.kill) =>
              /\ svLog = <<"systemctl is-active", "systemctl show MainPID", "SIGUSR1",
                           "systemctl disable">>
              /\ svResult = "Ok"
        /\ (svEnv.active /\ svEnv.pid /\ ~svEnv.kill) =>
              /\ svLog = <<"systemctl is-active", "systemctl show MainPID", "SIGUSR1">>
              /\ svResult = "Internal"
        /\ (svEnv.active /\ ~svEnv.pid) =>
              /\ svLog = <<"systemctl is-active", "systemctl show MainPID">>
              /\ svResult = "Internal"

\* The signal was sent, the disable failed, drain returned Ok.
C34_Witness ==
    /\ DrainDone /\ svEnv.active /\ svEnv.kill /\ ~svEnv.disable
    /\ Len(svLog) = 4 /\ svResult = "Ok"

(***************************************************************************)
(* Properties: archive downloads                                           *)
(***************************************************************************)

LastResponse(s) == IF dlLog[s] = <<>> THEN "none" ELSE dlLog[s][Len(dlLog[s])]

\* C31: when one storage's download fails run returns failure, and the
\* failure stops no other storage: at the return every storage has had its
\* own download, the ones answered with a valid archive are extracted, and
\* an extracted storage stays extracted.
C31_FailureStopsNoOther ==
    /\ [](dlPc = "done" =>
            /\ dlResult = "false" <=> AnyFailed
            /\ dlResult = "true" <=> ~AnyFailed
            /\ \A s \in Storages :
                  /\ dlState[s] # "pending"
                  /\ LastResponse(s) = "200" => dlState[s] = "extracted")
    /\ [][\A s \in Storages :
            dlState[s] = "extracted" => dlState'[s] = "extracted"]_vars

C31_Witness ==
    /\ dlPc = "done"
    /\ dlResult = "false"
    /\ \E s, t \in Storages :
          /\ LastResponse(s) = "404" /\ dlState[s] = "failed"
          /\ dlState[t] = "extracted"
          /\ Len(dlLog[s]) < Len(dlLog[t])

\* C32: an archive URL receives at most three requests; after a 5xx or a 429
\* the request is made again until the third, which fails the storage; a 200
\* with a valid archive ends the requests with the storage extracted; a 200
\* whose body is not a tar.gz fails the storage with no further request.
C32_AtMostThreeAttempts ==
    \A s \in Storages :
        /\ Len(dlLog[s]) <= 3
        /\ \A i \in 1..(Len(dlLog[s]) - 1) : dlLog[s][i] \in {"429", "5xx", "404"}
        /\ LastResponse(s) \in {"429", "5xx"} =>
              IF Len(dlLog[s]) = 3 THEN dlState[s] = "failed" ELSE dlState[s] = "pending"
        /\ LastResponse(s) = "200" => dlState[s] = "extracted"
        /\ LastResponse(s) = "200bad" => dlState[s] = "failed"
        /\ dlState[s] = "extracted" => LastResponse(s) = "200"

C32_Witness ==
    \E s, t \in Storages :
        /\ dlLog[s] = <<"5xx", "429", "5xx">> /\ dlState[s] = "failed"
        /\ dlLog[t] = <<"200bad">> /\ dlState[t] = "failed"

====
